---- MODULE Spec2Model ----
(***************************************************************************)
(* Model of the evaluator dispatch and scoring engine of                   *)
(* agenta_backend/services/evaluators_service.py, and of the instrument    *)
(* decorator of agenta/sdk/decorators/tracing.py.                          *)
(*                                                                         *)
(* Python values are tagged records, a Python str is a TLA+ string, a      *)
(* Python dict is an insertion-ordered sequence of <<key, value>> pairs.   *)
(* A call that may raise yields an outcome: Ret(v) or Raise(cls, msg).     *)
(* Statements in sequence are chained with Then and Let, so that a value   *)
(* is computed once and an exception skips the statements after it.        *)
(***************************************************************************)
EXTENDS Integers, Sequences, FiniteSets, TLC

\* ------------------------------------------------------------------------
\* Python values
\* ------------------------------------------------------------------------
PyNone == [k |-> "none"]
PyBool(b) == [k |-> "bool", b |-> b]
PyInt(n) == [k |-> "int", n |-> n]
PyFloat(num, den) == [k |-> "float", num |-> num, den |-> den]
PyStr(s) == [k |-> "str", s |-> s]
PyDict(items) == [k |-> "dict", items |-> items]
PyList(items) == [k |-> "list", items |-> items]

IsNumber(v) == v.k \in {"int", "float", "bool"}

\* numerator and denominator of a Python number (bool is an int)
NumOf(v) == CASE v.k = "int" -> v.n
              [] v.k = "bool" -> (IF v.b THEN 1 ELSE 0)
              [] v.k = "float" -> v.num
DenOf(v) == IF v.k = "float" THEN v.den ELSE 1

\* Python truth value of an object
Truthy(v) == CASE v.k = "none" -> FALSE
               [] v.k = "bool" -> v.b
               [] v.k = "int" -> v.n # 0
               [] v.k = "float" -> v.num # 0
               [] v.k = "str" -> v.s # ""
               [] v.k \in {"dict", "list"} -> v.items # <<>>

\* Python type(a) == type(b)
SameType(a, b) == a.k = b.k

\* ------------------------------------------------------------------------
\* Outcomes and exceptions
\* ------------------------------------------------------------------------
Ret(v) == [ok |-> TRUE, val |-> v]
Raise(cls, msg) == [ok |-> FALSE, exc |-> [cls |-> cls, msg |-> msg]]

\* value bound to a name for the statements F that follow
Let(value, F(_)) == F(value)
\* the statements F run on the value of a, unless a raised
Then(a, F(_)) == IF a.ok THEN F(a.val) ELSE a

\* the class hierarchy the except clauses test against
Bases(cls) == CASE cls = "JSONDecodeError" -> {"JSONDecodeError", "ValueError", "Exception"}
                [] cls = "HTTPStatusError" -> {"HTTPStatusError", "HTTPError", "Exception"}
                [] cls = "ConnectError" -> {"ConnectError", "HTTPError", "Exception"}
                [] cls = "CancelledError" -> {"CancelledError", "BaseException"}
                [] OTHER -> {cls, "Exception"}
IsInstance(exc, cls) == cls \in Bases(exc.cls)

\* str(e) and repr(e) of an exception
StrExc(exc) == exc.msg
ReprExc(exc) == exc.cls \o "('" \o exc.msg \o "')"

\* ------------------------------------------------------------------------
\* dict operations
\* ------------------------------------------------------------------------
DictKeys(d) == {d.items[i][1] : i \in DOMAIN d.items}
DictHas(d, key) == key \in DictKeys(d)
DictLookup(d, key) == d.items[CHOOSE i \in DOMAIN d.items : d.items[i][1] = key][2]
\* d.get(key, default)
DictGet(d, key, default) == IF DictHas(d, key) THEN DictLookup(d, key) ELSE default
\* d[key]
DictIndex(d, key) == IF DictHas(d, key) THEN Ret(DictLookup(d, key))
                     ELSE Raise("KeyError", key)
\* d[key] = value : replaces in place or appends
DictSet(d, key, value) ==
    IF DictHas(d, key)
    THEN PyDict([i \in DOMAIN d.items |->
                    IF d.items[i][1] = key THEN <<key, value>> ELSE d.items[i]])
    ELSE PyDict(Append(d.items, <<key, value>>))

\* Python == on objects: numbers compare by value across int, float and
\* bool, dicts by their items whatever the order, lists item by item
RECURSIVE PyEq(_, _)
PyEq(a, b) ==
    CASE IsNumber(a) /\ IsNumber(b) -> NumOf(a) * DenOf(b) = NumOf(b) * DenOf(a)
      [] a.k = "dict" /\ b.k = "dict" ->
            /\ DictKeys(a) = DictKeys(b)
            /\ \A key \in DictKeys(a) : PyEq(DictLookup(a, key), DictLookup(b, key))
      [] a.k = "list" /\ b.k = "list" ->
            /\ Len(a.items) = Len(b.items)
            /\ \A i \in DOMAIN a.items : PyEq(a.items[i], b.items[i])
      [] OTHER -> a = b

\* ------------------------------------------------------------------------
\* Result and Error (agenta_backend.models.shared_models)
\* ------------------------------------------------------------------------
Error(message, stacktrace) == [message |-> message, stacktrace |-> stacktrace]
Result(type, value, error) == [type |-> type, value |-> value, error |-> error]

\* Result(type=..., value=...) : error defaults to None
ValueResult(type, value) == Result(type, value, PyNone)
\* Result(type="error", value=None, error=Error(message=...)) : the
\* stacktrace defaults to None
ErrorResult(message) == Result("error", PyNone, Error(message, PyNone))
\* Result(type="error", value=None, error=Error(message=..., stacktrace=...))
ErrorResultTb(message, stacktrace) == Result("error", PyNone, Error(message, stacktrace))
\* traceback.format_exc() in an except clause
Traceback(exc) == PyStr("Traceback (most recent call last): " \o ReprExc(exc))

\* ------------------------------------------------------------------------
\* str helpers
\* ------------------------------------------------------------------------
\* s[a-1:b] with both ends clamped, as a Python slice
Slice(s, a, b) == IF (IF a < 1 THEN 1 ELSE a) > (IF b > Len(s) THEN Len(s) ELSE b) THEN ""
                  ELSE SubSeq(s, IF a < 1 THEN 1 ELSE a, IF b > Len(s) THEN Len(s) ELSE b)
\* the character at position i (1-based), "" outside the string
At(s, i) == Slice(s, i, i)
IsDigit(c) == c \in {"0", "1", "2", "3", "4", "5", "6", "7", "8", "9"}
DigitVal(c) == CASE c = "0" -> 0 [] c = "1" -> 1 [] c = "2" -> 2 [] c = "3" -> 3
                 [] c = "4" -> 4 [] c = "5" -> 5 [] c = "6" -> 6 [] c = "7" -> 7
                 [] c = "8" -> 8 [] c = "9" -> 9

RECURSIVE DigitsToInt(_)
DigitsToInt(t) == IF t = "" THEN 0
                  ELSE DigitsToInt(Slice(t, 1, Len(t) - 1)) * 10 + DigitVal(At(t, Len(t)))

RECURSIVE Pow10(_)
Pow10(n) == IF n = 0 THEN 1 ELSE 10 * Pow10(n - 1)

Least(S) == CHOOSE m \in S : \A n \in S : m <= n
Greatest(S) == CHOOSE m \in S : \A n \in S : m >= n

\* first index >= i at which s holds c, or 0
IndexFrom(s, c, i) == IF \E j \in i..Len(s) : At(s, j) = c
                      THEN Least({j \in i..Len(s) : At(s, j) = c}) ELSE 0
\* last index at which s holds c, or 0
LastIndex(s, c) == IF \E j \in 1..Len(s) : At(s, j) = c
                   THEN Greatest({j \in 1..Len(s) : At(s, j) = c}) ELSE 0

\* the first index >= i that holds no blank (Len(s) + 1 when there is none)
SkipWs(s, i) == Least({j \in i..(Len(s) + 1) : At(s, j) # " "})
\* the first index >= i that holds no digit
ScanDigits(s, i) == Least({j \in i..(Len(s) + 1) : ~IsDigit(At(s, j))})

\* ------------------------------------------------------------------------
\* json.loads : objects, arrays, strings without escapes, integers,
\* decimals, true, false, null; blanks between tokens
\* ------------------------------------------------------------------------
PFail == [ok |-> FALSE]
POk(v, next) == [ok |-> TRUE, val |-> v, next |-> next]
\* the parse F continues after the parse r, at the index r stopped at
PThen(r, F(_, _)) == IF r.ok THEN F(r.val, r.next) ELSE PFail

\* the end of the integer part that starts at j: -?(0|[1-9][0-9]*)
IntEnd(s, j) == Let(ScanDigits(s, j), LAMBDA d : IF d > j /\ At(s, j) = "0" THEN j + 1 ELSE d)
\* the end of the fraction that may start at e: (\.[0-9]+)?
FracEnd(s, e) == IF At(s, e) = "." /\ ScanDigits(s, e + 1) > e + 1
                 THEN ScanDigits(s, e + 1) ELSE e

\* the number whose digits are s[j..e-1] and whose fraction ends before f
NumberValue(s, sign, j, e, f) ==
    IF f > e
    THEN PyFloat(sign * (DigitsToInt(Slice(s, j, e - 1)) * Pow10(f - e - 1)
                         + DigitsToInt(Slice(s, e + 1, f - 1))),
                 Pow10(f - e - 1))
    ELSE PyInt(sign * DigitsToInt(Slice(s, j, e - 1)))

ParseDigits(s, sign, j) ==
    Let(IntEnd(s, j), LAMBDA e :
        IF e = j THEN PFail
        ELSE Let(FracEnd(s, e), LAMBDA f : POk(NumberValue(s, sign, j, e, f), f)))

ParseNumber(s, i) == IF At(s, i) = "-" THEN ParseDigits(s, -1, i + 1)
                     ELSE ParseDigits(s, 1, i)

\* the text between the quote at i and the next quote
ParseString(s, i) ==
    Let(IndexFrom(s, "\"", i + 1), LAMBDA q :
        IF At(s, i) # "\"" \/ q = 0 THEN PFail
        ELSE POk(Slice(s, i + 1, q - 1), q + 1))

RECURSIVE ParseValue(_, _)
RECURSIVE ParseMembers(_, _, _)
RECURSIVE ParseElements(_, _, _)

\* the value that starts at i, a non-blank position
ParseToken(s, i) ==
    CASE At(s, i) = "{" ->
            Let(SkipWs(s, i + 1), LAMBDA j :
                IF At(s, j) = "}" THEN POk(PyDict(<<>>), j + 1)
                ELSE ParseMembers(s, j, PyDict(<<>>)))
      [] At(s, i) = "[" ->
            Let(SkipWs(s, i + 1), LAMBDA j :
                IF At(s, j) = "]" THEN POk(PyList(<<>>), j + 1)
                ELSE ParseElements(s, j, <<>>))
      [] At(s, i) = "\"" ->
            PThen(ParseString(s, i), LAMBDA text, next : POk(PyStr(text), next))
      [] Slice(s, i, i + 3) = "true" -> POk(PyBool(TRUE), i + 4)
      [] Slice(s, i, i + 4) = "false" -> POk(PyBool(FALSE), i + 5)
      [] Slice(s, i, i + 3) = "null" -> POk(PyNone, i + 4)
      [] OTHER -> ParseNumber(s, i)

ParseValue(s, i) == ParseToken(s, SkipWs(s, i))

\* "key" : value ( , members | } ) ; a repeated key keeps its last value
ParseMembers(s, i, acc) ==
    PThen(ParseString(s, SkipWs(s, i)), LAMBDA key, after_key :
    Let(SkipWs(s, after_key), LAMBDA colon :
        IF At(s, colon) # ":" THEN PFail
        ELSE PThen(ParseValue(s, colon + 1), LAMBDA value, after_value :
             Let(SkipWs(s, after_value), LAMBDA e :
                 CASE At(s, e) = "," -> ParseMembers(s, e + 1, DictSet(acc, key, value))
                   [] At(s, e) = "}" -> POk(DictSet(acc, key, value), e + 1)
                   [] OTHER -> PFail))))

ParseElements(s, i, acc) ==
    PThen(ParseValue(s, i), LAMBDA value, after_value :
    Let(SkipWs(s, after_value), LAMBDA e :
        CASE At(s, e) = "," -> ParseElements(s, e + 1, Append(acc, value))
          [] At(s, e) = "]" -> POk(PyList(Append(acc, value)), e + 1)
          [] OTHER -> PFail))

\* the whole text must be one value
ParseDocument(s) ==
    Let(ParseValue(s, 1), LAMBDA r :
        IF ~r.ok THEN Raise("JSONDecodeError", "Expecting value")
        ELSE IF SkipWs(s, r.next) <= Len(s) THEN Raise("JSONDecodeError", "Extra data")
        ELSE Ret(r.val))

\* json.loads(x): TypeError for a non-str, JSONDecodeError for malformed text
JsonLoads(x) ==
    IF x.k # "str" THEN Raise("TypeError", "the JSON object must be str, bytes or bytearray")
    ELSE ParseDocument(x.s)

\* ------------------------------------------------------------------------
\* str methods
\* ------------------------------------------------------------------------
\* s.split(sep) for a one-character sep: always at least one piece
RECURSIVE Split(_, _)
Split(s, sep) ==
    Let(IndexFrom(s, sep, 1), LAMBDA i :
        IF i = 0 THEN <<s>>
        ELSE <<Slice(s, 1, i - 1)>> \o Split(Slice(s, i + 1, Len(s)), sep))

\* sub in s
Contains(s, sub) ==
    \/ sub = ""
    \/ \E i \in 1..(Len(s) - Len(sub) + 1) : Slice(s, i, i + Len(sub) - 1) = sub
StartsWith(s, prefix) == Slice(s, 1, Len(prefix)) = prefix
EndsWith(s, suffix) == Len(suffix) <= Len(s) /\ Slice(s, Len(s) - Len(suffix) + 1, Len(s)) = suffix

LowerChar(c) == CASE c = "A" -> "a" [] c = "B" -> "b" [] c = "C" -> "c" [] c = "D" -> "d"
                  [] c = "E" -> "e" [] c = "F" -> "f" [] c = "G" -> "g" [] c = "H" -> "h"
                  [] c = "I" -> "i" [] c = "J" -> "j" [] c = "K" -> "k" [] c = "L" -> "l"
                  [] c = "M" -> "m" [] c = "N" -> "n" [] c = "O" -> "o" [] c = "P" -> "p"
                  [] c = "Q" -> "q" [] c = "R" -> "r" [] c = "S" -> "s" [] c = "T" -> "t"
                  [] c = "U" -> "u" [] c = "V" -> "v" [] c = "W" -> "w" [] c = "X" -> "x"
                  [] c = "Y" -> "y" [] c = "Z" -> "z" [] OTHER -> c
\* s.lower()
RECURSIVE Lower(_)
Lower(s) == IF s = "" THEN "" ELSE LowerChar(At(s, 1)) \o Lower(Slice(s, 2, Len(s)))

\* s.strip() : blanks removed at both ends
LStrip(s) == Slice(s, SkipWs(s, 1), Len(s))
RStrip(s) == Slice(s, 1, Greatest({j \in 0..Len(s) : At(s, j) # " "}))
Strip(s) == RStrip(LStrip(s))

\* s.split() : the maximal runs of non-blank characters
RECURSIVE Words(_)
Words(t) ==
    IF t = "" THEN <<>>
    ELSE Let(IndexFrom(t, " ", 1), LAMBDA i :
             IF i = 0 THEN <<t>>
             ELSE <<Slice(t, 1, i - 1)>> \o Words(LStrip(Slice(t, i + 1, Len(t)))))
SplitWs(s) == Words(LStrip(s))

\* int of a stripped text: optional sign, decimal digits
IntOfDigits(text, sign, digits) ==
    IF digits = "" \/ ScanDigits(digits, 1) <= Len(digits)
    THEN Raise("ValueError", "invalid literal for int() with base 10: '" \o text \o "'")
    ELSE Ret(sign * DigitsToInt(digits))

IntOfStripped(text, t) ==
    CASE At(t, 1) = "-" -> IntOfDigits(text, -1, Slice(t, 2, Len(t)))
      [] At(t, 1) = "+" -> IntOfDigits(text, 1, Slice(t, 2, Len(t)))
      [] OTHER -> IntOfDigits(text, 1, t)

\* int(text)
ParseInt(text) == IntOfStripped(text, Strip(text))

\* ------------------------------------------------------------------------
\* get_correct_answer
\* ------------------------------------------------------------------------
\* lines 41-45, for the key the settings name
answer_for(data_point, correct_answer_key) ==
    IF correct_answer_key.k \in {"dict", "list"} THEN Raise("TypeError", "unhashable type")
    ELSE IF correct_answer_key.k # "str"
         THEN Raise("ValueError", "Correct answer column not found in the test set.")
    ELSE IF ~DictHas(data_point, correct_answer_key.s)
         THEN Raise("ValueError", "Correct answer column '" \o correct_answer_key.s
                                  \o "' not found in the test set.")
         ELSE Ret(DictLookup(data_point, correct_answer_key.s))

get_correct_answer(data_point, settings_values) ==
    IF DictGet(settings_values, "correct_answer_key", PyNone) = PyNone
    THEN Raise("ValueError", "No correct answer keys provided.")
    ELSE answer_for(data_point, DictGet(settings_values, "correct_answer_key", PyNone))

\* ------------------------------------------------------------------------
\* get_field_value_from_trace
\* ------------------------------------------------------------------------
EXCLUDED_KEYS == {"start_time", "end_time", "trace_id", "span_id", "cost", "usage", "latency"}

\* tree[key] for a str key
IndexByKey(tree, key) ==
    IF tree.k = "dict" THEN DictIndex(tree, key)
    ELSE Raise("TypeError", "indices must be integers")

\* the 1-based position of index idx in a sequence of n items
Position(idx, n) == IF idx < 0 THEN n + idx + 1 ELSE idx + 1

\* tree[idx] for an int idx : lists and strings take negative indices too
IndexByInt(tree, idx) ==
    CASE tree.k = "list" ->
            (IF Position(idx, Len(tree.items)) \in 1..Len(tree.items)
             THEN Ret(tree.items[Position(idx, Len(tree.items))])
             ELSE Raise("IndexError", "list index out of range"))
      [] tree.k = "str" ->
            (IF Position(idx, Len(tree.s)) \in 1..Len(tree.s)
             THEN Ret(PyStr(At(tree.s, Position(idx, Len(tree.s)))))
             ELSE Raise("IndexError", "string index out of range"))
      [] tree.k = "dict" -> Raise("KeyError", ToString(idx))
      [] OTHER -> Raise("TypeError", "object is not subscriptable")

\* lines 77-79: the plain key of a field and its index, None without brackets
FieldKey(field) ==
    IF Contains(field, "[") /\ Contains(field, "]") THEN Split(field, "[")[1] ELSE field
FieldIdx(field) ==
    IF Contains(field, "[") /\ Contains(field, "]")
    THEN Then(ParseInt(Split(Split(field, "[")[2], "]")[1]), LAMBDA n : Ret(PyInt(n)))
    ELSE Ret(PyNone)

\* lines 84-89: tree[key], then [idx] when there is one ; None on any failure
Step(tree, key, idx) ==
    Let(Then(IndexByKey(tree, key), LAMBDA sub :
             IF idx = PyNone THEN Ret(sub) ELSE IndexByInt(sub, idx.n)),
        LAMBDA r : IF r.ok THEN Ret([found |-> TRUE, tree |-> r.val])
                   ELSE Ret([found |-> FALSE]))

\* a loop over fields that does not test the key against EXCLUDED_KEYS
RECURSIVE WalkFields_unfiltered(_, _)
WalkFields_unfiltered(tree, fields) ==
    IF fields = <<>> THEN Ret(tree)
    ELSE Then(FieldIdx(Head(fields)), LAMBDA idx :
         Then(Step(tree, FieldKey(Head(fields)), idx), LAMBDA step :
              IF ~step.found THEN Ret(PyNone)
              ELSE WalkFields_unfiltered(step.tree, Tail(fields))))

\* the loop over fields: the value reached, None on an excluded key or a
\* failed lookup ; raises when int() rejects the bracket content
RECURSIVE WalkFields(_, _)
WalkFields(tree, fields) ==
    IF fields = <<>> THEN Ret(tree)
    ELSE Then(FieldIdx(Head(fields)), LAMBDA idx :
         Let(FieldKey(Head(fields)), LAMBDA key :
             IF key \in EXCLUDED_KEYS THEN Ret(PyNone)
             ELSE Then(Step(tree, key, idx), LAMBDA step :
                       IF ~step.found THEN Ret(PyNone)
                       ELSE WalkFields(step.tree, Tail(fields)))))

\* lines 70-91 with no except clause around the loop
trace_walk_unguarded(trace, key) == WalkFields(trace, Split(key, "."))

\* lines 70-94 as an outcome: the outer except turns what the loop raises
\* into None
trace_walk(trace, key) ==
    Let(WalkFields(trace, Split(key, ".")), LAMBDA r : IF r.ok THEN r ELSE Ret(PyNone))

get_field_value_from_trace(trace, key) == trace_walk(trace, key).val

\* ------------------------------------------------------------------------
\* get_user_key_from_settings
\* ------------------------------------------------------------------------
get_user_key_from_settings(settings_values, user_key) ==
    Let(DictGet(settings_values, user_key, PyDict(<<>>)), LAMBDA wrapper :
        IF wrapper.k # "dict" THEN Raise("AttributeError", "object has no attribute 'get'")
        ELSE Ret(DictGet(wrapper, "default", PyNone)))

\* ------------------------------------------------------------------------
\* flatten_json
\* ------------------------------------------------------------------------
IsContainer(v) == v.k \in {"dict", "list"}

\* the key and the value of entry i of a dict or a list
EntryKey(obj, i) == IF obj.k = "dict" THEN obj.items[i][1] ELSE ToString(i - 1)
EntryValue(obj, i) == IF obj.k = "dict" THEN obj.items[i][2] ELSE obj.items[i]
\* f"{path}.{key}" if path else key
NewKey(path, key) == IF path # "" THEN path \o "." \o key ELSE key

\* flatten(obj, path) writing into the dict out ; entries i.. of obj remain
RECURSIVE FlattenFrom(_, _, _, _)
FlattenFrom(obj, path, i, out) ==
    IF ~IsContainer(obj) \/ i > Len(obj.items) THEN out
    ELSE IF IsContainer(EntryValue(obj, i))
         THEN FlattenFrom(obj, path, i + 1,
                          FlattenFrom(EntryValue(obj, i), NewKey(path, EntryKey(obj, i)), 1, out))
         ELSE FlattenFrom(obj, path, i + 1,
                          DictSet(out, NewKey(path, EntryKey(obj, i)), EntryValue(obj, i)))

flatten_json(json_obj) == FlattenFrom(json_obj, "", 1, PyDict(<<>>))

\* ------------------------------------------------------------------------
\* compare_jsons
\* ------------------------------------------------------------------------
\* {k.lower(): v for k, v in d.items()}
RECURSIVE LowerKeys(_, _, _)
LowerKeys(d, i, out) ==
    IF i > Len(d.items) THEN out
    ELSE LowerKeys(d, i + 1, DictSet(out, Lower(d.items[i][1]), d.items[i][2]))

normalize_keys(d, case_insensitive) ==
    IF ~case_insensitive THEN d ELSE LowerKeys(d, 1, PyDict(<<>>))

\* diff of the one-entry dicts {gt_key: gt_value} and {ao_key: ao_value}
diff(gt_key, gt_value, ao_key, ao_value, compare_schema_only) ==
    IF compare_schema_only
    THEN (IF gt_key = ao_key /\ SameType(gt_value, ao_value) THEN 1 ELSE 0)
    ELSE (IF gt_key = ao_key /\ PyEq(gt_value, ao_value) THEN 1 ELSE 0)

\* lines 636-642: both values must be truthy for diff to be asked
score_of(key, ground_truth_value, llm_app_output_value, compare_schema_only) ==
    IF Truthy(ground_truth_value) /\ Truthy(llm_app_output_value)
    THEN diff(key, ground_truth_value, key, llm_app_output_value, compare_schema_only)
    ELSE 0

\* the score of one key of the loop
key_score(key, flattened_ground_truth, flattened_app_output, compare_schema_only) ==
    score_of(key, DictGet(flattened_ground_truth, key, PyNone),
             DictGet(flattened_app_output, key, PyNone), compare_schema_only)

\* cumulated_score over the keys
RECURSIVE SumScores(_, _, _, _)
SumScores(keys, fgt, fao, schema_only) ==
    IF keys = {} THEN 0
    ELSE key_score(CHOOSE k \in keys : TRUE, fgt, fao, schema_only)
         + SumScores(keys \ {CHOOSE k \in keys : TRUE}, fgt, fao, schema_only)

\* lines 618-620: the keys of the ground truth, with those of the output
\* when predict_keys is set ; taken before the keys are normalized
keys_of(flat_gt, flat_ao, settings_values) ==
    IF Truthy(DictGet(settings_values, "predict_keys", PyBool(FALSE)))
    THEN DictKeys(flat_gt) \cup DictKeys(flat_ao)
    ELSE DictKeys(flat_gt)

\* an average that answers 0.0 for an empty key set instead of dividing
average_score_guarded(keys, flat_gt, flat_ao, compare_schema_only, case_insensitive_keys) ==
    IF Cardinality(keys) = 0 THEN Ret(PyFloat(0, 1))
    ELSE Ret(PyFloat(SumScores(keys, normalize_keys(flat_gt, Truthy(case_insensitive_keys)),
                               normalize_keys(flat_ao, Truthy(case_insensitive_keys)),
                               Truthy(compare_schema_only)),
                     Cardinality(keys)))

\* lines 622-647 on the two flattened objects
average_score(keys, flat_gt, flat_ao, compare_schema_only, case_insensitive_keys) ==
    IF Cardinality(keys) = 0 THEN Raise("ZeroDivisionError", "float division by zero")
    ELSE Ret(PyFloat(SumScores(keys, normalize_keys(flat_gt, Truthy(case_insensitive_keys)),
                               normalize_keys(flat_ao, Truthy(case_insensitive_keys)),
                               Truthy(compare_schema_only)),
                     Cardinality(keys)))

\* the average score as the float cumulated_score / no_of_keys
compare_jsons(ground_truth, app_output, settings_values) ==
    Let(flatten_json(ground_truth), LAMBDA flat_gt :
    Let(flatten_json(app_output), LAMBDA flat_ao :
        average_score(keys_of(flat_gt, flat_ao, settings_values), flat_gt, flat_ao,
                      DictGet(settings_values, "compare_schema_only", PyBool(FALSE)),
                      DictGet(settings_values, "case_insensitive_keys", PyBool(FALSE)))))

\* ------------------------------------------------------------------------
\* levenshtein_distance
\* ------------------------------------------------------------------------
HasLen(v) == v.k \in {"str", "list", "dict"}
\* the items a for loop over v yields
Elements(v) == CASE v.k = "str" -> [i \in 1..Len(v.s) |-> At(v.s, i)]
                 [] v.k = "list" -> v.items
                 [] v.k = "dict" -> [i \in 1..Len(v.items) |-> v.items[i][1]]

Min3(a, b, c) == IF a <= b /\ a <= c THEN a ELSE IF b <= c THEN b ELSE c

\* a cell that charges every substitution, also of a character by itself
Cell_charging_equal(previous_row, current_row, j, c1, c2) ==
    Min3(previous_row[j + 1] + 1, current_row[j] + 1, previous_row[j] + 1)

\* lines 786-789: the cell after the j cells of current_row
Cell(previous_row, current_row, j, c1, c2) ==
    Min3(previous_row[j + 1] + 1, current_row[j] + 1,
         previous_row[j] + (IF c1 # c2 THEN 1 ELSE 0))

\* the inner loop: current_row grown to the full row for character c1
\* (the test on Len makes TLC evaluate a row before the next one is built)
RECURSIVE FillRow(_, _, _, _)
FillRow(previous_row, current_row, c1, e2) ==
    IF Len(current_row) > Len(e2) THEN current_row
    ELSE Let(Append(current_row,
                    Cell(previous_row, current_row, Len(current_row), c1, e2[Len(current_row)])),
             LAMBDA grown : IF Len(grown) > 0 THEN FillRow(previous_row, grown, c1, e2)
                            ELSE grown)

\* the outer loop: the last row
RECURSIVE Rows(_, _, _, _)
Rows(previous_row, i, e1, e2) ==
    IF i > Len(e1) THEN previous_row
    ELSE Let(FillRow(previous_row, <<i>>, e1[i], e2),
             LAMBDA current_row : IF Len(current_row) > 0 THEN Rows(current_row, i + 1, e1, e2)
                                  ELSE current_row)

\* lines 776-792 on the items of the two sequences, the longer one first
Distance(e1, e2) ==
    IF Len(e2) = 0 THEN Len(e1)
    ELSE Let(Rows([j \in 1..(Len(e2) + 1) |-> j - 1], 1, e1, e2), LAMBDA last : last[Len(last)])

levenshtein_distance(s1, s2) ==
    IF ~HasLen(s1) \/ ~HasLen(s2) THEN Raise("TypeError", "object has no len()")
    ELSE IF Len(Elements(s1)) < Len(Elements(s2))
         THEN Ret(PyInt(Distance(Elements(s2), Elements(s1))))
         ELSE Ret(PyInt(Distance(Elements(s1), Elements(s2))))

\* ------------------------------------------------------------------------
\* The strategies.  Each is its try body, S_try(args), an outcome holding the
\* returned Result or the exception raised, and its except clauses,
\* S_except(exc), the Result the matching handler returns.  args holds the
\* six arguments: inputs, output, data_point, app_params, settings_values,
\* lm_providers_keys.
\* ------------------------------------------------------------------------

\* x.lower(), x.split(), ... on a value that must be a str
NeedStr(v, method) == IF v.k = "str" THEN Ret(v.s)
                      ELSE Raise("AttributeError", "object has no attribute '" \o method \o "'")

\* a < b, a <= b, ... on a value that must be a number
NeedNumber(v, operator) ==
    IF IsNumber(v) THEN Ret(v)
    ELSE Raise("TypeError", "'" \o operator \o "' not supported between instances")

\* ---- auto_exact_match
auto_exact_match_try(args) ==
    Then(get_correct_answer(args.data_point, args.settings_values), LAMBDA correct_answer :
         Ret(ValueResult("bool", PyBool(PyEq(args.output, correct_answer)))))

auto_exact_match_except(exc) ==
    IF IsInstance(exc, "ValueError") THEN ErrorResult(StrExc(exc))
    ELSE ErrorResultTb("Error during Auto Exact Match evaluation", Traceback(exc))

\* ---- auto_regex_test ; patterns are literal text, "(" alone does not compile
re_compile(pattern) ==
    IF pattern.k # "str" THEN Raise("TypeError", "first argument must be string or compiled pattern")
    ELSE IF Contains(pattern.s, "(") /\ ~Contains(pattern.s, ")")
         THEN Raise("error", "missing ), unterminated subpattern")
         ELSE Ret(pattern.s)

\* bool(re_pattern.search(output)) under re.IGNORECASE
re_search(re_pattern, output) ==
    IF output.k # "str" THEN Raise("TypeError", "expected string or bytes-like object")
    ELSE Ret(PyBool(Contains(Lower(output.s), Lower(re_pattern))))

auto_regex_test_try(args) ==
    Then(DictIndex(args.settings_values, "regex_pattern"), LAMBDA pattern :
    Then(re_compile(pattern), LAMBDA re_pattern :
    Then(re_search(re_pattern, args.output), LAMBDA found :
    Then(DictIndex(args.settings_values, "regex_should_match"), LAMBDA should_match :
         Ret(ValueResult("bool", PyBool(PyEq(found, should_match))))))))

auto_regex_test_except(exc) ==
    ErrorResultTb("Error during Auto Regex evaluation", Traceback(exc))

\* ---- field_match_test
\* output_json[json_field]
Subscript(output_json, json_field) ==
    CASE output_json.k = "dict" /\ json_field.k = "str" -> DictIndex(output_json, json_field.s)
      [] output_json.k = "dict" /\ json_field.k \in {"dict", "list"} ->
            Raise("TypeError", "unhashable type")
      [] output_json.k = "dict" -> Raise("KeyError", "json_field")
      [] output_json.k \in {"list", "str"} /\ json_field.k \in {"int", "bool"} ->
            IndexByInt(output_json, NumOf(json_field))
      [] output_json.k \in {"list", "str"} ->
            Raise("TypeError", "indices must be integers or slices")
      [] OTHER -> Raise("TypeError", "object is not subscriptable")

field_match_test_try(args) ==
    Then(get_correct_answer(args.data_point, args.settings_values), LAMBDA correct_answer :
    Then(JsonLoads(args.output), LAMBDA output_json :
    Then(DictIndex(args.settings_values, "json_field"), LAMBDA json_field :
    Then(Subscript(output_json, json_field), LAMBDA field :
         Ret(ValueResult("bool", PyBool(PyEq(field, correct_answer))))))))

field_match_test_except(exc) ==
    IF IsInstance(exc, "ValueError") THEN ErrorResult(StrExc(exc))
    ELSE ValueResult("bool", PyBool(FALSE))

\* ---- auto_starts_with, auto_ends_with, auto_contains
\* value.lower() unless case_sensitive
Fold(value, case_sensitive) ==
    IF Truthy(case_sensitive) THEN Ret(value)
    ELSE Then(NeedStr(value, "lower"), LAMBDA s : Ret(PyStr(Lower(s))))

\* the setting and the output, each lower-cased unless case_sensitive, handed
\* to the test F(output, text)
Folded(args, setting, F(_, _)) ==
    Let(DictGet(args.settings_values, "case_sensitive", PyBool(TRUE)), LAMBDA case_sensitive :
    Then(Fold(args.output, case_sensitive), LAMBDA output :
    Then(Fold(DictGet(args.settings_values, setting, PyStr("")), case_sensitive), LAMBDA text :
         F(output, text))))

\* output.startswith(prefix)
PyStartsWith(output, prefix) ==
    Then(NeedStr(output, "startswith"), LAMBDA s :
         IF prefix.k # "str" THEN Raise("TypeError", "startswith first arg must be str")
         ELSE Ret(PyBool(StartsWith(s, prefix.s))))

\* output.endswith(suffix)
PyEndsWith(output, suffix) ==
    Then(NeedStr(output, "endswith"), LAMBDA s :
         IF suffix.k # "str" THEN Raise("TypeError", "endswith first arg must be str")
         ELSE Ret(PyBool(EndsWith(s, suffix.s))))

\* substring in output : text in a str, a key of a dict, an item of a list
PyIn(substring, output) ==
    CASE output.k = "str" ->
            (IF substring.k = "str" THEN Ret(PyBool(Contains(output.s, substring.s)))
             ELSE Raise("TypeError", "'in <string>' requires string as left operand"))
      [] output.k = "dict" -> Ret(PyBool(substring.k = "str" /\ DictHas(output, substring.s)))
      [] output.k = "list" ->
            Ret(PyBool(\E i \in DOMAIN output.items : PyEq(output.items[i], substring)))
      [] OTHER -> Raise("TypeError", "argument is not iterable")

\* Result(type="bool", value=...) of a test that may raise
BoolResult(test) == Then(test, LAMBDA result : Ret(ValueResult("bool", result)))

auto_starts_with_try(args) ==
    BoolResult(Folded(args, "prefix", LAMBDA output, prefix : PyStartsWith(output, prefix)))

auto_starts_with_except(exc) ==
    ErrorResultTb("Error during Starts With evaluation", Traceback(exc))

auto_ends_with_try(args) ==
    BoolResult(Folded(args, "suffix", LAMBDA output, suffix : PyEndsWith(output, suffix)))

auto_ends_with_except(exc) ==
    ErrorResultTb("Error during Ends With evaluation", Traceback(exc))

auto_contains_try(args) ==
    BoolResult(Folded(args, "substring", LAMBDA output, substring : PyIn(substring, output)))

auto_contains_except(exc) ==
    ErrorResultTb("Error during Contains evaluation", Traceback(exc))

\* ---- auto_contains_any, auto_contains_all
\* [substring.strip() for substring in substrings_str.split(",")]
StripAll(pieces) == [i \in DOMAIN pieces |-> PyStr(Strip(pieces[i]))]
\* [substring.lower() for substring in substrings]
LowerAll(substrings) == [i \in DOMAIN substrings |-> PyStr(Lower(substrings[i].s))]

\* the substrings and the output, lower-cased unless case_sensitive, handed
\* to the test F(substrings, output)
Substrings(args, F(_, _)) ==
    Then(NeedStr(DictGet(args.settings_values, "substrings", PyStr("")), "split"),
         LAMBDA substrings_str :
    Let(StripAll(Split(substrings_str, ",")), LAMBDA substrings :
        IF Truthy(DictGet(args.settings_values, "case_sensitive", PyBool(TRUE)))
        THEN F(substrings, args.output)
        ELSE Then(Fold(args.output, PyBool(FALSE)), LAMBDA output :
                  F(LowerAll(substrings), output))))

\* any(...) stops at the first hit, so a later failing test is not reached
RECURSIVE AnyIn(_, _)
AnyIn(substrings, output) ==
    IF substrings = <<>> THEN Ret(PyBool(FALSE))
    ELSE Then(PyIn(Head(substrings), output), LAMBDA hit :
              IF hit.b THEN Ret(hit) ELSE AnyIn(Tail(substrings), output))

\* a test that is satisfied by one substring alone
AllIn_one_suffices(substrings, output) == AnyIn(substrings, output)

\* all(...) stops at the first miss
RECURSIVE AllIn(_, _)
AllIn(substrings, output) ==
    IF substrings = <<>> THEN Ret(PyBool(TRUE))
    ELSE Then(PyIn(Head(substrings), output), LAMBDA hit :
              IF ~hit.b THEN Ret(hit) ELSE AllIn(Tail(substrings), output))

auto_contains_any_try(args) ==
    BoolResult(Substrings(args, LAMBDA substrings, output : AnyIn(substrings, output)))

auto_contains_any_except(exc) ==
    ErrorResultTb("Error during Contains Any evaluation", Traceback(exc))

auto_contains_all_try(args) ==
    BoolResult(Substrings(args, LAMBDA substrings, output : AllIn(substrings, output)))

auto_contains_all_except(exc) ==
    ErrorResultTb("Error during Contains All evaluation", Traceback(exc))

\* ---- auto_contains_json
\* output.index("{") : the 1-based position
PyIndex(output, c) ==
    CASE output.k = "str" ->
            (IF IndexFrom(output.s, c, 1) = 0 THEN Raise("ValueError", "substring not found")
             ELSE Ret(IndexFrom(output.s, c, 1)))
      [] output.k = "list" ->
            (IF \E i \in DOMAIN output.items : output.items[i] = PyStr(c)
             THEN Ret(Least({i \in DOMAIN output.items : output.items[i] = PyStr(c)}))
             ELSE Raise("ValueError", "is not in list"))
      [] OTHER -> Raise("AttributeError", "object has no attribute 'index'")

\* output.rindex("}") : the 1-based position
PyRIndex(output, c) ==
    IF output.k # "str" THEN Raise("AttributeError", "object has no attribute 'rindex'")
    ELSE IF LastIndex(output.s, c) = 0 THEN Raise("ValueError", "substring not found")
    ELSE Ret(LastIndex(output.s, c))

\* the inner try of lines 527-531
potential_json(output) ==
    Then(PyIndex(output, "{"), LAMBDA start_index :
    Then(PyRIndex(output, "}"), LAMBDA end_index :
         JsonLoads(PyStr(Slice(output.s, start_index, end_index)))))

\* the inner except: a ValueError means no JSON, anything else goes on up
contains_json(attempt) ==
    IF attempt.ok THEN Ret(PyBool(TRUE))
    ELSE IF IsInstance(attempt.exc, "ValueError") THEN Ret(PyBool(FALSE))
    ELSE attempt

auto_contains_json_try(args) == BoolResult(contains_json(potential_json(args.output)))

auto_contains_json_except(exc) ==
    ErrorResultTb("Error during Contains JSON evaluation", Traceback(exc))

\* ---- auto_json_diff
auto_json_diff_try(args) ==
    Then(get_correct_answer(args.data_point, args.settings_values), LAMBDA correct_answer :
    Then(JsonLoads(args.output), LAMBDA app_output :
    Then(compare_jsons(correct_answer, app_output, args.settings_values), LAMBDA score :
         Ret(ValueResult("number", score)))))

auto_json_diff_except(exc) ==
    ErrorResultTb("Error during JSON diff evaluation", Traceback(exc))

\* ---- auto_levenshtein_distance
\* a <= b on Python numbers
NumLe(a, b) == NumOf(a) * DenOf(b) <= NumOf(b) * DenOf(a)
\* a comparison that also holds at equality
NumLt_or_equal(a, b) == NumLe(a, b)
NumLt(a, b) == NumOf(a) * DenOf(b) < NumOf(b) * DenOf(a)

auto_levenshtein_distance_try(args) ==
    Then(get_correct_answer(args.data_point, args.settings_values), LAMBDA correct_answer :
    Then(levenshtein_distance(args.output, correct_answer), LAMBDA distance :
         IF DictHas(args.settings_values, "threshold")
         THEN Then(NeedNumber(DictLookup(args.settings_values, "threshold"), "<="),
                   LAMBDA threshold :
                   Ret(ValueResult("bool", PyBool(NumLe(distance, threshold)))))
         ELSE Ret(ValueResult("number", distance))))

auto_levenshtein_distance_except(exc) ==
    IF IsInstance(exc, "ValueError") THEN ErrorResult(StrExc(exc))
    ELSE ErrorResultTb("Error during Levenshtein threshold evaluation", Traceback(exc))

\* ---- auto_similarity_match
ToSet(seq) == {seq[i] : i \in DOMAIN seq}

\* len(intersect) / len(union) as a float
similarity(set1, set2) ==
    IF set1 \cup set2 = {} THEN Raise("ZeroDivisionError", "division by zero")
    ELSE Ret(PyFloat(Cardinality(set1 \cap set2), Cardinality(set1 \cup set2)))

auto_similarity_match_try(args) ==
    Then(get_correct_answer(args.data_point, args.settings_values), LAMBDA correct_answer :
    Then(NeedStr(args.output, "split"), LAMBDA output :
    Then(NeedStr(correct_answer, "split"), LAMBDA answer :
    Then(similarity(ToSet(SplitWs(output)), ToSet(SplitWs(answer))), LAMBDA ratio :
    Then(DictIndex(args.settings_values, "similarity_threshold"), LAMBDA setting :
    Then(NeedNumber(setting, ">"), LAMBDA threshold :
         Ret(ValueResult("bool", PyBool(NumLt(threshold, ratio))))))))))

auto_similarity_match_except(exc) ==
    IF IsInstance(exc, "ValueError") THEN ErrorResult(StrExc(exc))
    ELSE ErrorResultTb("Error during Auto Similarity Match evaluation", Traceback(exc))

\* ------------------------------------------------------------------------
\* Strategies that call an external collaborator.  S_try(args, responses)
\* runs the try body given the responses received so far: it yields
\* Await(request) at a call that has no response yet.
\* ------------------------------------------------------------------------
Await(request) == [ok |-> FALSE, await |-> request]
IsAwait(out) == "await" \in DOMAIN out
IsRaise(out) == "exc" \in DOMAIN out

\* a collaborator's answer: a value, or the exception its call raises
Answer(v) == [raised |-> FALSE, val |-> v]
Failure(cls, msg) == [raised |-> TRUE, exc |-> [cls |-> cls, msg |-> msg]]

\* a call that is issued once more when the collaborator's call raised
Request_retrying(responses, n, request) ==
    IF Len(responses) < n THEN Await(request)
    ELSE IF responses[Len(responses)].raised /\ Len(responses) < n + 1 THEN Await(request)
    ELSE IF responses[Len(responses)].raised
         THEN [ok |-> FALSE, exc |-> responses[Len(responses)].exc]
    ELSE Ret(responses[Len(responses)].val)

\* call number n to a collaborator: waits for the n-th response, raises what
\* the collaborator raised, or goes on with its answer
Request(responses, n, request) ==
    IF Len(responses) < n THEN Await(request)
    ELSE IF responses[n].raised THEN [ok |-> FALSE, exc |-> responses[n].exc]
    ELSE Ret(responses[n].val)

\* asyncio.get_event_loop()
get_event_loop(args) ==
    IF args.loop_available THEN Ret("loop")
    ELSE Raise("RuntimeError", "There is no current event loop in thread")

\* ---- auto_webhook_test
\* response.raise_for_status()
raise_for_status(response) ==
    IF response.status \in 200..299 THEN Ret(response)
    ELSE Raise("HTTPStatusError", "Server error '" \o ToString(response.status) \o "'")

\* response_data.get("score", None)
get_score(response_data) ==
    IF response_data.k # "dict" THEN Raise("AttributeError", "object has no attribute 'get'")
    ELSE Ret(DictGet(response_data, "score", PyNone))

\* the score wrapped as it came, with neither test
score_unchecked(score) == Ret(ValueResult("number", score))

\* lines 230-247: the two tests on the score
score_result(score) ==
    IF score = PyNone /\ ~IsNumber(score)
    THEN Ret(ErrorResult("Error during Auto Webhook evaluation; Webhook did not return a score"))
    ELSE Then(NeedNumber(score, "<"), LAMBDA number :
              IF NumLt(number, PyInt(0)) \/ NumLt(PyInt(1), number)
              THEN Ret(ErrorResult("Error during Auto Webhook evaluation; Webhook returned an invalid score. Score must be between 0 and 1"))
              ELSE Ret(ValueResult("number", score)))

\* the try body after client.post returned response
webhook_after_post(response) ==
    Then(raise_for_status(response), LAMBDA checked :
    Then(JsonLoads(PyStr(checked.body)), LAMBDA response_data :
    Then(get_score(response_data), LAMBDA score : score_result(score))))

webhook_payload(args, correct_answer) ==
    [correct_answer |-> correct_answer, output |-> args.output, inputs |-> args.inputs]

auto_webhook_test_try(args, responses) ==
    Then(get_correct_answer(args.data_point, args.settings_values), LAMBDA correct_answer :
    Then(DictIndex(args.settings_values, "webhook_url"), LAMBDA url :
    Then(Request(responses, 1, [to |-> "webhook", url |-> url,
                                payload |-> webhook_payload(args, correct_answer)]),
         LAMBDA response : webhook_after_post(response))))

\* one handler for every exception, whatever its cause
webhook_except_unclassified(exc) ==
    ErrorResultTb("[webhook evaluation] Exception - " \o ReprExc(exc) \o " ", Traceback(exc))

auto_webhook_test_except(exc) ==
    IF IsInstance(exc, "HTTPError")
    THEN ErrorResultTb("[webhook evaluation] HTTP - " \o ReprExc(exc), Traceback(exc))
    ELSE IF IsInstance(exc, "JSONDecodeError")
         THEN ErrorResultTb("[webhook evaluation] JSON - " \o ReprExc(exc), Traceback(exc))
         ELSE ErrorResultTb("[webhook evaluation] Exception - " \o ReprExc(exc) \o " ",
                            Traceback(exc))

\* ---- auto_custom_code_run
auto_custom_code_run_try(args, responses) ==
    Then(DictIndex(args.settings_values, "code"), LAMBDA code :
    Then(Request(responses, 1, [to |-> "sandbox", code |-> code, output |-> args.output,
                                correct_answer |->
                                    DictGet(args.data_point, "correct_answer", PyNone)]),
         LAMBDA result : Ret(ValueResult("number", result))))

auto_custom_code_run_except(exc) ==
    ErrorResultTb("Error during Auto Custom Code Evaluation", Traceback(exc))

\* ---- auto_ai_critique
auto_ai_critique_try(args, responses) ==
    Then(get_correct_answer(args.data_point, args.settings_values), LAMBDA correct_answer :
    Then(DictIndex(args.lm_providers_keys, "OPENAI_API_KEY"), LAMBDA openai_api_key :
    Then(DictIndex(args.settings_values, "prompt_template"), LAMBDA prompt_template :
    Then(Request(responses, 1, [to |-> "chat", model |-> "gpt-3.5-turbo",
                                system |-> prompt_template, variant_output |-> args.output,
                                correct_answer |-> correct_answer]),
         LAMBDA content :
    Then(NeedStr(content, "strip"), LAMBDA text :
         Ret(ValueResult("text", PyStr(Strip(text)))))))))

auto_ai_critique_except(exc) ==
    ErrorResultTb("Error during Auto AI Critique", Traceback(exc))

\* ---- rag_faithfulness, rag_context_relevancy
\* get_field_value_from_trace for a key of any type: key.split is called
\* before the try
trace_value(trace, key) ==
    Then(NeedStr(key, "split"), LAMBDA s : Ret(get_field_value_from_trace(trace, s)))

\* lines 687-695: the three configured keys, all of them set
rag_keys(settings_values) ==
    Then(get_user_key_from_settings(settings_values, "question_key"), LAMBDA question_key :
    Then(get_user_key_from_settings(settings_values, "answer_key"), LAMBDA answer_key :
    Then(get_user_key_from_settings(settings_values, "contexts_key"), LAMBDA contexts_key :
         IF PyNone \in {question_key, answer_key, contexts_key}
         THEN Raise("ValueError", "Missing required configuration keys: 'question_key', 'answer_key', or 'contexts_key'. Please check your settings and try again.")
         ELSE Ret([question |-> question_key, answer |-> answer_key,
                   contexts |-> contexts_key]))))

\* the three values read from the trace, handed on without the None test
rag_values_unchecked(output, keys) ==
    Then(trace_value(output, keys.question), LAMBDA question_value :
    Then(trace_value(output, keys.answer), LAMBDA answer_value :
    Then(trace_value(output, keys.contexts), LAMBDA contexts_value :
         Ret([output |-> answer_value, input |-> question_value,
              context |-> contexts_value]))))

\* lines 697-704: the three values read from the trace, all of them found
rag_values(output, keys) ==
    Then(trace_value(output, keys.question), LAMBDA question_value :
    Then(trace_value(output, keys.answer), LAMBDA answer_value :
    Then(trace_value(output, keys.contexts), LAMBDA contexts_value :
         IF PyNone \in {question_value, answer_value, contexts_value}
         THEN Raise("ValueError", "Missing required key values for rag_evaluator: 'question_value', 'answer_value', or 'contexts_value'. Please check your settings and try again.")
         ELSE Ret([output |-> answer_value, input |-> question_value,
                   context |-> contexts_value]))))

\* the try body up to the scorer call: the scorer's arguments
rag_arguments(args) ==
    Then(rag_keys(args.settings_values), LAMBDA keys :
    Then(rag_values(args.output, keys), LAMBDA values :
    Then(get_event_loop(args), LAMBDA loop : Ret(values))))

rag_try(metric, args, responses) ==
    Then(rag_arguments(args), LAMBDA arguments :
    Then(Request(responses, 1, [to |-> "rag_scorer", metric |-> metric,
                                arguments |-> arguments]),
         LAMBDA score : Ret(ValueResult("number", score))))

rag_faithfulness_try(args, responses) == rag_try("Faithfulness", args, responses)

rag_faithfulness_except(exc) ==
    ErrorResultTb("Error during RAG Faithfulness evaluation", Traceback(exc))

rag_context_relevancy_try(args, responses) == rag_try("ContextRelevancy", args, responses)

rag_context_relevancy_except(exc) ==
    ErrorResultTb("Error during RAG Context Relevancy evaluation", Traceback(exc))

\* ---- semantic_similarity, auto_semantic_similarity
\* np.dot of two embedding vectors
RECURSIVE Dot(_, _)
Dot(u, v) == IF u = <<>> THEN 0 ELSE Head(u) * Head(v) + Dot(Tail(u), Tail(v))

\* await encode(text), the n-th call to the embeddings API
encode(text, responses, n) ==
    Request(responses, n, [to |-> "embedding", model |-> "text-embedding-3-small",
                           input |-> text])

\* the coroutine: encode(output), then encode(correct_answer), then the dot product
semantic_similarity(output, correct_answer, api_key, responses) ==
    Then(encode(output, responses, 1), LAMBDA output_vector :
    Then(encode(correct_answer, responses, 2), LAMBDA correct_answer_vector :
         Ret(PyInt(Dot(output_vector, correct_answer_vector)))))

auto_semantic_similarity_try(args, responses) ==
    Then(get_event_loop(args), LAMBDA loop :
    Then(DictIndex(args.lm_providers_keys, "OPENAI_API_KEY"), LAMBDA openai_api_key :
    Then(get_correct_answer(args.data_point, args.settings_values), LAMBDA correct_answer :
    Then(semantic_similarity(args.output, correct_answer, openai_api_key, responses),
         LAMBDA score : Ret(ValueResult("number", score))))))

auto_semantic_similarity_except(exc) ==
    ErrorResultTb("Error during Auto Semantic Similarity", Traceback(exc))

\* ------------------------------------------------------------------------
\* The registry and the dispatcher
\* ------------------------------------------------------------------------
EVALUATOR_FUNCTIONS ==
    {"auto_exact_match", "auto_regex_test", "field_match_test", "auto_webhook_test",
     "auto_custom_code_run", "auto_ai_critique", "auto_starts_with", "auto_ends_with",
     "auto_contains", "auto_contains_any", "auto_contains_all", "auto_contains_json",
     "auto_json_diff", "auto_semantic_similarity", "auto_levenshtein_distance",
     "auto_similarity_match", "rag_faithfulness", "rag_context_relevancy"}

\* the try body of the registered function
StrategyTry(evaluator_key, args, responses) ==
    CASE evaluator_key = "auto_exact_match" -> auto_exact_match_try(args)
      [] evaluator_key = "auto_regex_test" -> auto_regex_test_try(args)
      [] evaluator_key = "field_match_test" -> field_match_test_try(args)
      [] evaluator_key = "auto_webhook_test" -> auto_webhook_test_try(args, responses)
      [] evaluator_key = "auto_custom_code_run" -> auto_custom_code_run_try(args, responses)
      [] evaluator_key = "auto_ai_critique" -> auto_ai_critique_try(args, responses)
      [] evaluator_key = "auto_starts_with" -> auto_starts_with_try(args)
      [] evaluator_key = "auto_ends_with" -> auto_ends_with_try(args)
      [] evaluator_key = "auto_contains" -> auto_contains_try(args)
      [] evaluator_key = "auto_contains_any" -> auto_contains_any_try(args)
      [] evaluator_key = "auto_contains_all" -> auto_contains_all_try(args)
      [] evaluator_key = "auto_contains_json" -> auto_contains_json_try(args)
      [] evaluator_key = "auto_json_diff" -> auto_json_diff_try(args)
      [] evaluator_key = "auto_semantic_similarity" ->
            auto_semantic_similarity_try(args, responses)
      [] evaluator_key = "auto_levenshtein_distance" -> auto_levenshtein_distance_try(args)
      [] evaluator_key = "auto_similarity_match" -> auto_similarity_match_try(args)
      [] evaluator_key = "rag_faithfulness" -> rag_faithfulness_try(args, responses)
      [] evaluator_key = "rag_context_relevancy" -> rag_context_relevancy_try(args, responses)

\* the except clauses of the registered function
StrategyExcept(evaluator_key, exc) ==
    CASE evaluator_key = "auto_exact_match" -> auto_exact_match_except(exc)
      [] evaluator_key = "auto_regex_test" -> auto_regex_test_except(exc)
      [] evaluator_key = "field_match_test" -> field_match_test_except(exc)
      [] evaluator_key = "auto_webhook_test" -> auto_webhook_test_except(exc)
      [] evaluator_key = "auto_custom_code_run" -> auto_custom_code_run_except(exc)
      [] evaluator_key = "auto_ai_critique" -> auto_ai_critique_except(exc)
      [] evaluator_key = "auto_starts_with" -> auto_starts_with_except(exc)
      [] evaluator_key = "auto_ends_with" -> auto_ends_with_except(exc)
      [] evaluator_key = "auto_contains" -> auto_contains_except(exc)
      [] evaluator_key = "auto_contains_any" -> auto_contains_any_except(exc)
      [] evaluator_key = "auto_contains_all" -> auto_contains_all_except(exc)
      [] evaluator_key = "auto_contains_json" -> auto_contains_json_except(exc)
      [] evaluator_key = "auto_json_diff" -> auto_json_diff_except(exc)
      [] evaluator_key = "auto_semantic_similarity" -> auto_semantic_similarity_except(exc)
      [] evaluator_key = "auto_levenshtein_distance" -> auto_levenshtein_distance_except(exc)
      [] evaluator_key = "auto_similarity_match" -> auto_similarity_match_except(exc)
      [] evaluator_key = "rag_faithfulness" -> rag_faithfulness_except(exc)
      [] evaluator_key = "rag_context_relevancy" -> rag_context_relevancy_except(exc)

\* a Result for an unknown key that does not say what was wrong
evaluate_unnamed_failure(evaluator_key) ==
    ErrorResult("Error occurred while running {evaluator_key} evaluation. ")

\* evaluate, lines 964-972: the Result for a key the registry does not hold
evaluate_not_found(evaluator_key) ==
    ErrorResult("Evaluation method '" \o evaluator_key \o "' not found.")

\* an outer except clause that lets the exception go on to the caller
evaluate_reraise(evaluator_key, exc) == [ok |-> FALSE, exc |-> exc]

\* evaluate, lines 982-990: the outer except clause ; the message is not an
\* f-string, so the braces stay in it
evaluate_except(evaluator_key, exc) ==
    IF IsInstance(exc, "Exception")
    THEN Ret(ErrorResultTb("Error occurred while running {evaluator_key} evaluation. ",
                           PyStr(StrExc(exc))))
    ELSE [ok |-> FALSE, exc |-> exc]

\* ------------------------------------------------------------------------
\* The inputs of the model
\* ------------------------------------------------------------------------
D1(k1, v1) == PyDict(<< <<k1, v1>> >>)
D2(k1, v1, k2, v2) == PyDict(<< <<k1, v1>>, <<k2, v2>> >>)
D3(k1, v1, k2, v2, k3, v3) == PyDict(<< <<k1, v1>>, <<k2, v2>>, <<k3, v3>> >>)
Empty == PyDict(<<>>)

\* a recorded trace of the scored application
Trace1 == PyDict(<< <<"q", PyStr("why")>>,
                    <<"a", D1("text", PyStr("because"))>>,
                    <<"ctx", PyList(<<PyStr("c1"), PyStr("c2")>>)>>,
                    <<"cost", PyInt(3)>> >>)
Trace2 == D1("q", PyStr("why"))

Outputs ==
    {PyStr("a b"), PyStr("A B c"), PyStr(""), PyStr("{\"f\": \"a b\"}"),
     PyStr("not json {"), PyStr("{\"x\": 1, \"y\": \"v\"}"), PyStr("{\"x\": 0}"),
     PyStr("{}"), Trace1, Trace2}

DataPoints ==
    {D1("answer", PyStr("a b")),
     D1("answer", PyStr("")),
     D1("answer", D2("x", PyInt(1), "y", PyStr("v"))),
     D1("answer", D1("x", PyInt(0))),
     D1("answer", Empty),
     Empty}

Answer_key == <<"correct_answer_key", PyStr("answer")>>
Missing_key == <<"correct_answer_key", PyStr("missing")>>
WithKey(pairs) == PyDict(<<Answer_key>> \o pairs)
\* no correct_answer_key, one the data points may hold, one they never hold
ReferenceSettings == {Empty, PyDict(<<Answer_key>>), PyDict(<<Missing_key>>)}

UserKey(name) == D1("default", PyStr(name))

SettingsFor(evaluator_key) ==
    CASE evaluator_key \in {"auto_exact_match", "auto_semantic_similarity"} ->
            ReferenceSettings
      [] evaluator_key = "auto_regex_test" ->
            {Empty,
             D1("regex_pattern", PyStr("a b")),
             D2("regex_pattern", PyStr("a b"), "regex_should_match", PyBool(TRUE)),
             D2("regex_pattern", PyStr("B"), "regex_should_match", PyBool(FALSE)),
             D2("regex_pattern", PyStr("("), "regex_should_match", PyBool(TRUE))}
      [] evaluator_key = "field_match_test" ->
            ReferenceSettings \cup
            {WithKey(<< <<"json_field", PyStr("f")>> >>),
             WithKey(<< <<"json_field", PyStr("g")>> >>),
             D1("json_field", PyStr("f"))}
      [] evaluator_key = "auto_webhook_test" ->
            ReferenceSettings \cup
            {WithKey(<< <<"webhook_url", PyStr("https://hook")>> >>),
             PyDict(<<Missing_key, <<"webhook_url", PyStr("https://hook")>> >>)}
      [] evaluator_key = "auto_custom_code_run" ->
            {Empty, D1("code", PyStr("def evaluate(): ..."))}
      [] evaluator_key = "auto_ai_critique" ->
            ReferenceSettings \cup
            {WithKey(<< <<"prompt_template", PyStr("Judge the answer")>> >>)}
      [] evaluator_key = "auto_starts_with" ->
            {Empty, D1("prefix", PyStr("a")), D1("prefix", PyInt(5)),
             D2("prefix", PyStr("a"), "case_sensitive", PyBool(FALSE))}
      [] evaluator_key = "auto_ends_with" ->
            {Empty, D1("suffix", PyStr("b")), D1("suffix", PyInt(5)),
             D2("suffix", PyStr("C"), "case_sensitive", PyBool(FALSE))}
      [] evaluator_key = "auto_contains" ->
            {Empty, D1("substring", PyStr("q")), D1("substring", PyInt(5)),
             D2("substring", PyStr("b C"), "case_sensitive", PyBool(FALSE))}
      [] evaluator_key \in {"auto_contains_any", "auto_contains_all"} ->
            {Empty, D1("substrings", PyStr("a, b")), D1("substrings", PyStr("a,x")),
             D1("substrings", PyInt(5)),
             D2("substrings", PyStr(" A ,C"), "case_sensitive", PyBool(FALSE))}
      [] evaluator_key = "auto_json_diff" ->
            ReferenceSettings \cup
            {WithKey(<< <<"predict_keys", PyBool(TRUE)>> >>),
             WithKey(<< <<"compare_schema_only", PyBool(TRUE)>> >>),
             WithKey(<< <<"case_insensitive_keys", PyBool(TRUE)>> >>)}
      [] evaluator_key = "auto_levenshtein_distance" ->
            ReferenceSettings \cup
            {WithKey(<< <<"threshold", PyInt(2)>> >>),
             WithKey(<< <<"threshold", PyStr("2")>> >>)}
      [] evaluator_key = "auto_similarity_match" ->
            ReferenceSettings \cup
            {WithKey(<< <<"similarity_threshold", PyFloat(1, 2)>> >>),
             WithKey(<< <<"similarity_threshold", PyInt(1)>> >>),
             WithKey(<< <<"similarity_threshold", PyStr("0.5")>> >>)}
      [] evaluator_key \in {"rag_faithfulness", "rag_context_relevancy"} ->
            {Empty,
             D3("question_key", UserKey("q"), "answer_key", UserKey("a.text"),
                "contexts_key", UserKey("ctx")),
             D3("question_key", UserKey("q"), "answer_key", UserKey("a.text"),
                "contexts_key", UserKey("ctx[0]")),
             D3("question_key", UserKey("q"), "answer_key", UserKey("a.text"),
                "contexts_key", UserKey("cost")),
             D3("question_key", UserKey("q"), "answer_key", UserKey("a.body"),
                "contexts_key", UserKey("ctx")),
             D3("question_key", UserKey("q"), "answer_key", Empty,
                "contexts_key", UserKey("ctx")),
             D2("question_key", UserKey("q"), "answer_key", UserKey("a.text")),
             D3("question_key", PyStr("q"), "answer_key", UserKey("a.text"),
                "contexts_key", UserKey("ctx"))}
      [] OTHER -> {Empty}

UsesProviderKey(evaluator_key) ==
    evaluator_key \in {"auto_ai_critique", "auto_semantic_similarity"}
UsesEventLoop(evaluator_key) ==
    evaluator_key \in {"auto_semantic_similarity", "rag_faithfulness", "rag_context_relevancy"}

ProviderKeysFor(evaluator_key) ==
    IF UsesProviderKey(evaluator_key) THEN {D1("OPENAI_API_KEY", PyStr("sk-1")), Empty}
    ELSE {D1("OPENAI_API_KEY", PyStr("sk-1"))}

UnknownKeys == {"nonexistent_key", "auto_exact", ""}
EvaluatorKeys == EVALUATOR_FUNCTIONS \cup UnknownKeys

ArgsFor(evaluator_key) ==
    [inputs : {D1("country", PyStr("fr"))},
     output : Outputs,
     data_point : DataPoints,
     app_params : {D1("prompt_user", PyStr("Say hi"))},
     settings_values : SettingsFor(evaluator_key),
     lm_providers_keys : ProviderKeysFor(evaluator_key),
     loop_available : IF UsesEventLoop(evaluator_key) THEN BOOLEAN ELSE {TRUE}]

\* what the collaborators may answer
WebhookBodies ==
    {"{\"score\": 0.5}", "{\"score\": 0}", "{\"score\": 1}", "{\"score\": true}",
     "{\"score\": 1.5}", "{\"score\": -1}", "{\"score\": 2}",
     "{\"score\": \"0.5\"}", "{\"score\": [1]}", "{\"score\": null}",
     "{}", "{\"result\": 1}", "[0.5]", "not json", ""}

ResponsesOf(to) ==
    CASE to = "webhook" ->
            {Failure("ConnectError", "All connection attempts failed")}
            \cup {Answer([status |-> 500, body |-> b]) : b \in {"{\"score\": 0.5}", "not json"}}
            \cup {Answer([status |-> 200, body |-> b]) : b \in WebhookBodies}
      [] to = "sandbox" ->
            {Answer(PyFloat(1, 2)), Answer(PyInt(1)),
             Failure("Exception", "Error during code execution")}
      [] to = "chat" ->
            {Answer(PyStr(" good ")), Answer(PyNone),
             Failure("APIConnectionError", "Connection error.")}
      [] to = "embedding" ->
            {Answer(<<1, 0>>), Answer(<<0, 1>>),
             Failure("APIConnectionError", "Connection error.")}
      [] to = "rag_scorer" ->
            {Answer(PyFloat(1, 2)), Answer(PyInt(1)),
             Failure("Exception", "scorer failed")}

\* ------------------------------------------------------------------------
\* The state machine of one call of evaluate
\* ------------------------------------------------------------------------
\* the threads of the process and the event loops they may find current
Threads == {"MainThread", "Thread-1"}
Loops == {"main_loop", "thread_loop"}
NotRunning == "not running"

VARIABLES
    pc,               \* where the call is
    call,             \* evaluate's arguments: evaluator_key and args
    invoked,          \* the registered functions called, in order
    requests,         \* the requests issued to collaborators, in order
    responses,        \* the collaborators' answers received, in order
    raised,           \* the exception the try body raised
    strategy_outcome, \* what the strategy returned, or raised past its handlers
    outcome,          \* what evaluate returned to its caller, or raised
    layer,            \* who built the returned Result: "strategy" or "dispatcher"
    threads,          \* the evaluate call each thread of the process is running
    loops,            \* for each event loop, the thread running it, if any
    tracing,          \* the calls made to the tracing object, in order
    result            \* the local variable result of the instrument wrapper

vars == <<pc, call, invoked, requests, responses, raised, strategy_outcome, outcome, layer,
          threads, loops, tracing, result>>

Nothing == [k |-> "nothing"]

Init ==
    /\ pc = "idle"
    /\ call = Nothing
    /\ invoked = <<>>
    /\ requests = <<>>
    /\ responses = <<>>
    /\ raised = Nothing
    /\ strategy_outcome = Nothing
    /\ outcome = Nothing
    /\ layer = "none"
    /\ threads = [thread \in Threads |-> [pc |-> "idle"]]
    /\ loops = [loop \in Loops |-> NotRunning]
    /\ tracing = <<>>
    /\ result = Nothing

\* the caller calls evaluate(evaluator_key, *args)
Call(evaluator_key, args) ==
    /\ pc = "idle"
    /\ call' = [evaluator_key |-> evaluator_key, args |-> args]
    /\ pc' = "called"
    /\ UNCHANGED <<invoked, requests, responses, raised, strategy_outcome, outcome, layer,
                 threads, loops, tracing, result>>

\* lines 964-972: the registry does not hold the key
NotFound ==
    /\ pc = "called"
    /\ call.evaluator_key \notin EVALUATOR_FUNCTIONS
    /\ outcome' = Ret(evaluate_not_found(call.evaluator_key))
    /\ layer' = "dispatcher"
    /\ pc' = "returned"
    /\ UNCHANGED <<call, invoked, requests, responses, raised, strategy_outcome,
                 threads, loops, tracing, result>>

\* lines 973-981: the registered function is called
Invoke ==
    /\ pc = "called"
    /\ call.evaluator_key \in EVALUATOR_FUNCTIONS
    /\ invoked' = Append(invoked, call.evaluator_key)
    /\ pc' = "in_try"
    /\ UNCHANGED <<call, requests, responses, raised, strategy_outcome, outcome, layer,
                 threads, loops, tracing, result>>

Body == StrategyTry(call.evaluator_key, call.args, responses)

\* the try body returns a Result
TryReturns ==
    /\ pc = "in_try"
    /\ Body.ok
    /\ strategy_outcome' = Body
    /\ pc' = "strategy_returned"
    /\ UNCHANGED <<call, invoked, requests, responses, raised, outcome, layer,
                 threads, loops, tracing, result>>

\* the try body issues a request to a collaborator and waits for the answer
TryRequests ==
    /\ pc = "in_try"
    /\ IsAwait(Body)
    /\ requests' = Append(requests, Body.await)
    /\ pc' = "awaiting"
    /\ UNCHANGED <<call, invoked, responses, raised, strategy_outcome, outcome, layer,
                 threads, loops, tracing, result>>

\* the collaborator answers, or its call raises
Respond ==
    /\ pc = "awaiting"
    /\ \E response \in ResponsesOf(requests[Len(requests)].to) :
          responses' = Append(responses, response)
    /\ pc' = "in_try"
    /\ UNCHANGED <<call, invoked, requests, raised, strategy_outcome, outcome, layer,
                 threads, loops, tracing, result>>

\* the try body raises
TryRaises ==
    /\ pc = "in_try"
    /\ IsRaise(Body)
    /\ raised' = Body.exc
    /\ pc' = "in_except"
    /\ UNCHANGED <<call, invoked, requests, responses, strategy_outcome, outcome, layer,
                 threads, loops, tracing, result>>

\* the matching except clause returns its Result
Except ==
    /\ pc = "in_except"
    /\ strategy_outcome' = Ret(StrategyExcept(call.evaluator_key, raised))
    /\ pc' = "strategy_returned"
    /\ UNCHANGED <<call, invoked, requests, responses, raised, outcome, layer,
                 threads, loops, tracing, result>>

\* the except clause itself fails (formatting the traceback or building the
\* Result raises): the exception leaves the strategy
ExceptFails ==
    /\ pc = "in_except"
    /\ strategy_outcome' = Raise("RuntimeError", "failure inside the except clause")
    /\ pc' = "strategy_raised"
    /\ UNCHANGED <<call, invoked, requests, responses, raised, outcome, layer,
                 threads, loops, tracing, result>>

\* line 974: evaluate returns what the strategy returned
Return ==
    /\ pc = "strategy_returned"
    /\ outcome' = strategy_outcome
    /\ layer' = "strategy"
    /\ pc' = "returned"
    /\ UNCHANGED <<call, invoked, requests, responses, raised, strategy_outcome,
                 threads, loops, tracing, result>>

\* lines 982-990: evaluate's own except clause
OuterExcept ==
    /\ pc = "strategy_raised"
    /\ outcome' = evaluate_except(call.evaluator_key, strategy_outcome.exc)
    /\ layer' = "dispatcher"
    /\ pc' = "returned"
    /\ UNCHANGED <<call, invoked, requests, responses, raised, strategy_outcome,
                 threads, loops, tracing, result>>

Next ==
    \/ \E evaluator_key \in EvaluatorKeys : \E args \in ArgsFor(evaluator_key) :
          Call(evaluator_key, args)
    \/ NotFound
    \/ Invoke
    \/ TryReturns
    \/ TryRequests
    \/ Respond
    \/ TryRaises
    \/ Except
    \/ ExceptFails
    \/ Return
    \/ OuterExcept

Spec == Init /\ [][Next]_vars

\* ------------------------------------------------------------------------
\* compare_jsons on its own: one call on two JSON values and the settings
\* ------------------------------------------------------------------------
JsonValues ==
    {D1("x", PyInt(1)), D1("x", PyInt(0)), D1("x", PyBool(FALSE)), D1("x", PyNone),
     D1("x", PyStr("")), D1("x", PyStr("1")), D1("X", PyInt(1)),
     D2("x", PyInt(1), "y", PyStr("v")), D2("y", PyStr("v"), "x", PyInt(1)),
     D1("a", D1("b", PyList(<<PyInt(1), PyInt(2)>>))),
     PyList(<<PyInt(1), PyStr("a")>>), D1("a", Empty), Empty}

JsonSettings ==
    {Empty, D1("predict_keys", PyBool(TRUE)), D1("compare_schema_only", PyBool(TRUE)),
     D1("case_insensitive_keys", PyBool(TRUE))}

\* the caller calls compare_jsons(ground_truth, app_output, settings_values)
Compare(ground_truth, app_output, settings_values) ==
    /\ pc = "idle"
    /\ call' = [ground_truth |-> ground_truth, app_output |-> app_output,
                settings_values |-> settings_values]
    /\ outcome' = compare_jsons(ground_truth, app_output, settings_values)
    /\ pc' = "compared"
    /\ UNCHANGED <<invoked, requests, responses, raised, strategy_outcome, layer,
                 threads, loops, tracing, result>>

NextJson ==
    \E ground_truth \in JsonValues : \E app_output \in JsonValues :
       \E settings_values \in JsonSettings :
          Compare(ground_truth, app_output, settings_values)

SpecJson == Init /\ [][NextJson]_vars

\* ------------------------------------------------------------------------
\* Properties
\* ------------------------------------------------------------------------
ResultTypes == {"error", "bool", "number", "text"}
IsResult(r) == DOMAIN r = {"type", "value", "error"} /\ r.type \in ResultTypes
IsErrorResult(r) == IsResult(r) /\ r.type = "error" /\ r.value = PyNone /\ r.error # PyNone

Finished(evaluator_key) == pc = "returned" /\ call.evaluator_key = evaluator_key
\* C1: every call of evaluate ends by returning a Result: what evaluate hands
\* to its caller is never an exception, also when the strategy's own except
\* clause failed, and a try body under way always returns, raises into its
\* except clauses or asks a collaborator that answers.
C1_EvaluateAlwaysReturnsResult ==
    /\ pc = "returned" => outcome.ok /\ IsResult(outcome.val)
    /\ pc = "in_try" => Body.ok \/ IsAwait(Body) \/ IsRaise(Body)
    /\ pc = "awaiting" => ResponsesOf(requests[Len(requests)].to) # {}
    /\ pc = "strategy_raised" => IsRaise(strategy_outcome)

\* a call whose strategy failed inside its except clause has returned
C1_Witness == pc = "returned" /\ layer = "dispatcher" /\ invoked # <<>> /\ outcome.ok

\* C2: for a key the registry does not hold, evaluate returns an error
\* Result whose message names the key and says it was not found, and no
\* strategy is invoked nor any collaborator asked.
C2_UnknownKeyNotFound ==
    (pc = "returned" /\ call.evaluator_key \notin EVALUATOR_FUNCTIONS) =>
        /\ outcome.ok
        /\ IsErrorResult(outcome.val)
        /\ Contains(outcome.val.error.message, "not found")
        /\ Contains(outcome.val.error.message, "'" \o call.evaluator_key \o "'")
        /\ invoked = <<>>
        /\ requests = <<>>

C2_Witness == Finished("nonexistent_key") /\ outcome.ok

\* the envelope of a Result
Envelope(r) ==
    /\ IsResult(r)
    /\ r.type = "error" => r.value = PyNone /\ r.error # PyNone
    /\ r.type # "error" => r.error = PyNone /\ r.value # PyNone

\* C3: every Result a strategy returns, and every Result evaluate returns,
\* has null value and an error when its type is error, and a value and no
\* error when its type is bool, number or text.
C3_ResultEnvelope ==
    /\ pc = "strategy_returned" => Envelope(strategy_outcome.val)
    /\ (pc = "returned" /\ outcome.ok) => Envelope(outcome.val)

\* the webhook strategy has returned a number Result
C3_Witness ==
    /\ Finished("auto_webhook_test")
    /\ layer = "strategy"
    /\ outcome.val.type = "number"

\* the strategies of C4 that read the reference answer
ReferenceStrategies ==
    {"auto_exact_match", "field_match_test", "auto_webhook_test", "auto_ai_critique",
     "auto_json_diff", "auto_levenshtein_distance", "auto_similarity_match",
     "auto_semantic_similarity"}
RagStrategies == {"rag_faithfulness", "rag_context_relevancy"}
RagKeyNames == {"question_key", "answer_key", "contexts_key"}

\* correct_answer_key is missing from the settings, or names no key of the
\* data point
ReferenceMissing ==
    \/ ~DictHas(call.args.settings_values, "correct_answer_key")
    \/ /\ DictLookup(call.args.settings_values, "correct_answer_key").k = "str"
       /\ ~DictHas(call.args.data_point,
                   DictLookup(call.args.settings_values, "correct_answer_key").s)

\* the configured key of a RAG field, None when it is not configured
RagKey(name) == get_user_key_from_settings(call.args.settings_values, name)
KeysResolved == \A name \in RagKeyNames : RagKey(name).ok /\ RagKey(name).val # PyNone
ValuesResolved ==
    \A name \in RagKeyNames :
        /\ RagKey(name).val.k = "str"
        /\ get_field_value_from_trace(call.args.output, RagKey(name).val.s) # PyNone
\* a RAG key is not configured, or a configured field is not in the trace
RagFieldMissing ==
    /\ \A name \in RagKeyNames : RagKey(name).ok
    /\ ~(KeysResolved /\ ValuesResolved)

\* the try body ended on the validation failure
ValidationRaised == pc = "returned" /\ "cls" \in DOMAIN raised /\ raised.cls = "ValueError"

\* C4: when the reference answer cannot be resolved, or a RAG key or trace
\* field is missing, the strategy returns an error Result whose message is
\* the validation message and which carries no stacktrace.
C4_ValidationErrorIsSpecific ==
    (/\ ValidationRaised
     /\ layer = "strategy"
     /\ \/ call.evaluator_key \in ReferenceStrategies /\ ReferenceMissing
        \/ call.evaluator_key \in RagStrategies /\ RagFieldMissing) =>
        /\ IsErrorResult(outcome.val)
        /\ outcome.val.error.message = raised.msg
        /\ outcome.val.error.stacktrace = PyNone

\* the output does not parse as JSON
OutputUnparsable == ~JsonLoads(call.args.output).ok
\* the output parses to an object that lacks the configured json_field
FieldLacking ==
    /\ JsonLoads(call.args.output).ok
    /\ JsonLoads(call.args.output).val.k = "dict"
    /\ DictLookup(call.args.settings_values, "json_field").k = "str"
    /\ ~DictHas(JsonLoads(call.args.output).val,
                DictLookup(call.args.settings_values, "json_field").s)

\* C5: in field_match_test, with the reference answer resolved, an output
\* that does not parse as JSON, and one whose JSON lacks the json_field, give
\* Result(type=bool, value=false).
C5_FieldMatchFailureIsFalse ==
    (/\ Finished("field_match_test")
     /\ layer = "strategy"
     /\ get_correct_answer(call.args.data_point, call.args.settings_values).ok
     /\ DictHas(call.args.settings_values, "json_field")
     /\ OutputUnparsable \/ FieldLacking) =>
        outcome.val = ValueResult("bool", PyBool(FALSE))

\* the webhook answered with a success status and a JSON object
WebhookAnswered ==
    /\ Finished("auto_webhook_test")
    /\ layer = "strategy"
    /\ Len(responses) = 1
    /\ ~responses[1].raised
    /\ responses[1].val.status \in 200..299
    /\ JsonLoads(PyStr(responses[1].val.body)).ok
    /\ JsonLoads(PyStr(responses[1].val.body)).val.k = "dict"
\* the score of the webhook's answer, None when it holds none
WebhookScore == DictGet(JsonLoads(PyStr(responses[1].val.body)).val, "score", PyNone)
InUnitInterval(score) == NumLe(PyInt(0), score) /\ NumLe(score, PyInt(1))

\* C6: the webhook strategy returns a number Result, holding the score, only
\* for a numeric score within [0,1] ; a numeric score outside gives the
\* "invalid score" error, a missing or non-numeric score the "did not return
\* a score" error.
C6_WebhookScoreContract ==
    WebhookAnswered =>
        CASE IsNumber(WebhookScore) /\ InUnitInterval(WebhookScore) ->
                outcome.val = ValueResult("number", WebhookScore)
          [] IsNumber(WebhookScore) /\ ~InUnitInterval(WebhookScore) ->
                /\ IsErrorResult(outcome.val)
                /\ Contains(outcome.val.error.message, "Score must be between 0 and 1")
          [] OTHER ->
                /\ IsErrorResult(outcome.val)
                /\ Contains(outcome.val.error.message, "Webhook did not return a score")

\* the webhook answered, with whatever status and body
Answered ==
    /\ Finished("auto_webhook_test")
    /\ layer = "strategy"
    /\ Len(responses) = 1
    /\ ~responses[1].raised
HttpFailure == responses[1].val.status \notin 200..299
JsonFailure ==
    /\ responses[1].val.status \in 200..299
    /\ ~JsonLoads(PyStr(responses[1].val.body)).ok
HttpMessage(r) == StartsWith(r.error.message, "[webhook evaluation] HTTP - ")
JsonMessage(r) == StartsWith(r.error.message, "[webhook evaluation] JSON - ")
\* the exceptions the two causes raise, over the answers a webhook may give
HttpExceptions ==
    {raise_for_status(a.val).exc :
        a \in {r \in ResponsesOf("webhook") : ~r.raised /\ r.val.status \notin 200..299}}
JsonExceptions ==
    {JsonLoads(PyStr(a.val.body)).exc :
        a \in {r \in ResponsesOf("webhook") : ~r.raised /\ ~JsonLoads(PyStr(r.val.body)).ok}}

\* C7: a webhook answer with a non-success status gives an error Result with
\* the HTTP message, a success answer whose body is not JSON gives one with
\* the JSON message, and no exception of the first cause is given the message
\* of one of the second.
C7_WebhookFailureClassified ==
    /\ (Answered /\ HttpFailure) =>
            IsErrorResult(outcome.val) /\ HttpMessage(outcome.val) /\ ~JsonMessage(outcome.val)
    /\ (Answered /\ JsonFailure) =>
            IsErrorResult(outcome.val) /\ JsonMessage(outcome.val) /\ ~HttpMessage(outcome.val)
    /\ \A h \in HttpExceptions : \A j \in JsonExceptions :
            auto_webhook_test_except(h).error.message # auto_webhook_test_except(j).error.message

\* the webhook answered 200 with a body that is not JSON
C7_Witness == Answered /\ JsonFailure /\ JsonMessage(outcome.val)

\* C8: in the two RAG strategies the scorer is asked only when the three keys
\* are configured and the three values are found in the trace ; when one of
\* the six is absent the call returns an error Result and the scorer is never
\* asked.
C8_ScorerOnlyAfterValidation ==
    (pc # "idle" /\ call.evaluator_key \in RagStrategies) =>
        /\ requests # <<>> => KeysResolved /\ ValuesResolved
        /\ (pc = "returned" /\ ~(KeysResolved /\ ValuesResolved)) =>
                outcome.ok /\ IsErrorResult(outcome.val) /\ requests = <<>>

\* a RAG call whose keys are configured and whose trace lacks a field returned
C8_Witness ==
    /\ pc = "returned"
    /\ call.evaluator_key \in RagStrategies
    /\ KeysResolved
    /\ ~ValuesResolved
    /\ requests = <<>>
    /\ IsErrorResult(outcome.val)

DefaultSettings(settings_values) ==
    /\ ~Truthy(DictGet(settings_values, "predict_keys", PyBool(FALSE)))
    /\ ~Truthy(DictGet(settings_values, "compare_schema_only", PyBool(FALSE)))
    /\ ~Truthy(DictGet(settings_values, "case_insensitive_keys", PyBool(FALSE)))
\* the JSON value has a leaf
HasLeaf(value) == DictKeys(flatten_json(value)) # {}

\* C9: under the default settings compare_jsons(a, a, settings) is 1.0 for
\* every JSON value a that has a leaf, whatever the leaves are.
C9_SelfComparisonIsPerfect ==
    (/\ pc = "compared"
     /\ call.ground_truth = call.app_output
     /\ DefaultSettings(call.settings_values)
     /\ HasLeaf(call.ground_truth)) =>
        outcome.ok /\ PyEq(outcome.val, PyFloat(1, 1))

\* the JSON comparison of the call has no key to compare
NoKeys ==
    /\ get_correct_answer(call.args.data_point, call.args.settings_values).ok
    /\ JsonLoads(call.args.output).ok
    /\ keys_of(flatten_json(get_correct_answer(call.args.data_point,
                                               call.args.settings_values).val),
               flatten_json(JsonLoads(call.args.output).val),
               call.args.settings_values) = {}

\* C10: a JSON comparison with no key to compare ends in an error Result:
\* the division fault is raised inside auto_json_diff's try and caught, and
\* the Result the strategy returns is its "JSON diff" error.
C10_ZeroKeysIsErrorResult ==
    (Finished("auto_json_diff") /\ NoKeys) =>
        /\ outcome.ok
        /\ IsErrorResult(outcome.val)
        /\ "cls" \in DOMAIN raised /\ raised.cls = "ZeroDivisionError"
        /\ layer = "strategy" =>
                outcome.val.error.message = "Error during JSON diff evaluation"

\* auto_json_diff returned its error Result for a comparison with no key
C10_Witness ==
    /\ Finished("auto_json_diff")
    /\ NoKeys
    /\ layer = "strategy"
    /\ IsErrorResult(outcome.val)

\* every leaf of the flattened value is truthy
RECURSIVE AllTruthy(_, _)
AllTruthy(flat, i) ==
    i > Len(flat.items) \/ (Truthy(flat.items[i][2]) /\ AllTruthy(flat, i + 1))

\* the two values have the same leaves once the keys are lower-cased, and
\* lower-casing merges no two keys of either
CaseFoldEqual(a, b) ==
    /\ PyEq(normalize_keys(flatten_json(a), TRUE), normalize_keys(flatten_json(b), TRUE))
    /\ Cardinality(DictKeys(normalize_keys(flatten_json(a), TRUE)))
         = Cardinality(DictKeys(flatten_json(a)))
    /\ Cardinality(DictKeys(normalize_keys(flatten_json(b), TRUE)))
         = Cardinality(DictKeys(flatten_json(b)))

\* C11: with case_insensitive_keys true, a ground truth and an output whose
\* leaves are truthy and equal and whose keys differ only in letter case
\* score 1.0, also when the keys of the ground truth hold upper-case letters.
C11_CaseInsensitiveKeysScorePerfect ==
    (/\ pc = "compared"
     /\ Truthy(DictGet(call.settings_values, "case_insensitive_keys", PyBool(FALSE)))
     /\ HasLeaf(call.ground_truth)
     /\ AllTruthy(flatten_json(call.ground_truth), 1)
     /\ CaseFoldEqual(call.ground_truth, call.app_output)) =>
        outcome.ok /\ PyEq(outcome.val, PyFloat(1, 1))

\* ------------------------------------------------------------------------
\* levenshtein_distance on its own: one call on two strings
\* ------------------------------------------------------------------------
Alphabet == {"a", "b"}
MaxLen == 3

\* the strings over the alphabet of length n, and of length at most n
RECURSIVE StringsOfLen(_)
StringsOfLen(n) ==
    IF n = 0 THEN {""} ELSE {s \o c : s \in StringsOfLen(n - 1), c \in Alphabet}
Strings == UNION {StringsOfLen(n) : n \in 0..MaxLen}

\* the caller calls levenshtein_distance(s1, s2)
Measure(s1, s2) ==
    /\ pc = "idle"
    /\ call' = [s1 |-> s1, s2 |-> s2]
    /\ outcome' = levenshtein_distance(PyStr(s1), PyStr(s2))
    /\ pc' = "measured"
    /\ UNCHANGED <<invoked, requests, responses, raised, strategy_outcome, layer,
                 threads, loops, tracing, result>>

NextLevenshtein == \E s1 \in Strings : \E s2 \in Strings : Measure(s1, s2)

SpecLevenshtein == Init /\ [][NextLevenshtein]_vars

\* C12: over the strings of the alphabet up to the length bound, the distance
\* of a string to itself is 0, the distance of the empty string to s is
\* len(s), and the distance of s1 to s2 is the distance of s2 to s1.
C12_LevenshteinAlgebra ==
    pc = "measured" =>
        /\ outcome.ok
        /\ call.s1 = call.s2 => outcome.val = PyInt(0)
        /\ call.s1 = "" => outcome.val = PyInt(Len(call.s2))
        /\ outcome = levenshtein_distance(PyStr(call.s2), PyStr(call.s1))

\* a shorter string measured against a longer one that shares a character
C12_Witness ==
    /\ pc = "measured"
    /\ call.s1 = "ab"
    /\ call.s2 = "bab"
    /\ outcome = Ret(PyInt(1))

\* ------------------------------------------------------------------------
\* get_field_value_from_trace on its own: one call on a trace and a path
\* ------------------------------------------------------------------------
\* the trace of the worked example, traces holding administrative keys at the
\* top and below it, a trace whose key holds a bracket, and three values
\* that are no mapping
TraceNames == {"example", "administrative", "bracket key", "recorded", "list", "text", "null"}
TraceOf(name) ==
    CASE name = "example" -> D1("a", D1("b", PyList(<<PyInt(10), PyInt(20)>>)))
      [] name = "administrative" ->
            D3("cost", D1("total", PyInt(5)),
               "a", D2("cost", PyList(<<PyInt(7), PyInt(8)>>), "usage", PyInt(1)),
               "usage", PyList(<<D1("total", PyInt(9))>>))
      [] name = "bracket key" -> D2("b[1", PyInt(5), "b", PyList(<<PyInt(1), PyStr("zz")>>))
      [] name = "recorded" -> Trace1
      [] name = "list" -> PyList(<<D1("a", PyInt(1))>>)
      [] name = "text" -> PyStr("why")
      [] name = "null" -> PyNone

PathKeys == {"a", "b", "cost", "usage", "total", "zz"}
\* no index, indices in and out of range, a negative one, bracket contents
\* that are no integer, and brackets that do not balance
PathSuffixes == {"", "[0]", "[1]", "[2]", "[-1]", "[x]", "[]", "[1", "1]"}
PathFields == {k \o x : k \in PathKeys, x \in PathSuffixes}
\* the fields that follow the first one
NextFields == {k \o x : k \in {"b", "cost", "total", "zz"}, x \in {"", "[1]", "[2]", "[x]", "[1"}}
Paths ==
    PathFields \cup {f \o "." \o g : f \in PathFields, g \in NextFields}
               \cup {"", ".", "a..b", "a.b[1].c", "a.cost[0].x", "usage[0].total.zz", "[1]"}

\* the caller calls get_field_value_from_trace(trace, key)
Extract(trace, key) ==
    /\ pc = "idle"
    /\ call' = [trace |-> trace, key |-> key]
    /\ outcome' = trace_walk(trace, key)
    /\ pc' = "extracted"
    /\ UNCHANGED <<invoked, requests, responses, raised, strategy_outcome, layer,
                 threads, loops, tracing, result>>

NextTrace == \E name \in TraceNames : \E key \in Paths : Extract(TraceOf(name), key)

SpecTrace == Init /\ [][NextTrace]_vars

\* the seven administrative keys
AdministrativeKeys ==
    {"start_time", "end_time", "trace_id", "span_id", "cost", "usage", "latency"}

\* the segment carries a bracketed index: a "[" with a "]" after it
HasIndex(segment) ==
    /\ IndexFrom(segment, "[", 1) # 0
    /\ IndexFrom(segment, "]", IndexFrom(segment, "[", 1)) # 0
\* the plain key of a segment: the part before its bracketed index
PlainKey(segment) ==
    IF HasIndex(segment) THEN Slice(segment, 1, IndexFrom(segment, "[", 1) - 1) ELSE segment
Segments(path) == Split(path, ".")
ThroughAdministrativeKey(path) ==
    \E i \in 1..Len(Segments(path)) : PlainKey(Segments(path)[i]) \in AdministrativeKeys

\* C13: for every trace and every path one of whose segments has an
\* administrative plain key, get_field_value_from_trace returns None,
\* whatever segments follow and also when the trace holds a value there.
C13_AdministrativeKeyIsAbsent ==
    (pc = "extracted" /\ ThroughAdministrativeKey(call.key)) => outcome = Ret(PyNone)

\* cost.total was asked of a trace that holds 5 there
C13_Witness ==
    /\ pc = "extracted"
    /\ call.key = "cost.total"
    /\ call.trace.k = "dict"
    /\ DictHas(call.trace, "cost")
    /\ DictLookup(call.trace, "cost") = D1("total", PyInt(5))
    /\ outcome = Ret(PyNone)

\* the text between the brackets of a segment that carries an index
IndexText(segment) ==
    Slice(segment, IndexFrom(segment, "[", 1) + 1,
          IndexFrom(segment, "]", IndexFrom(segment, "[", 1)) - 1)
IsDigits(t) == t # "" /\ \A i \in 1..Len(t) : IsDigit(At(t, i))
\* an optional sign and decimal digits
IsIntegerText(t) ==
    IF At(t, 1) \in {"-", "+"} THEN IsDigits(Slice(t, 2, Len(t))) ELSE IsDigits(t)
HasBracket(t) == IndexFrom(t, "[", 1) # 0 \/ IndexFrom(t, "]", 1) # 0

\* some segment's bracket content is empty or no integer
BadIndex(path) ==
    \E i \in 1..Len(Segments(path)) :
        HasIndex(Segments(path)[i]) /\ ~IsIntegerText(IndexText(Segments(path)[i]))
\* some segment holds a bracket without carrying a bracketed index
Unbalanced(path) ==
    \E i \in 1..Len(Segments(path)) :
        HasBracket(Segments(path)[i]) /\ ~HasIndex(Segments(path)[i])

\* a name, or a name followed by one bracketed index that is a natural number
WellFormedSegment(segment) ==
    /\ PlainKey(segment) # ""
    /\ HasBracket(segment) =>
          /\ HasIndex(segment)
          /\ IndexFrom(segment, "]", 1) = Len(segment)
          /\ IsDigits(IndexText(segment))
WellFormed(path) == \A i \in 1..Len(Segments(path)) : WellFormedSegment(Segments(path)[i])

NotFound_at == [found |-> FALSE]
Found_at(value) == [found |-> TRUE, value |-> value]
\* item n (0-based) of a sequence value
ItemAt(node, n) ==
    CASE node.k = "list" /\ n < Len(node.items) -> Found_at(node.items[n + 1])
      [] node.k = "str" /\ n < Len(node.s) -> Found_at(PyStr(At(node.s, n + 1)))
      [] OTHER -> NotFound_at
\* the node under the plain key of a segment, then under its index
Descend(node, segment) ==
    IF node.k # "dict" \/ ~DictHas(node, PlainKey(segment)) THEN NotFound_at
    ELSE IF ~HasIndex(segment) THEN Found_at(DictLookup(node, PlainKey(segment)))
    ELSE ItemAt(DictLookup(node, PlainKey(segment)), DigitsToInt(IndexText(segment)))
\* the value a well-formed path names in a trace
RECURSIVE ValueAt(_, _)
ValueAt(at, segments) ==
    IF ~at.found \/ segments = <<>> THEN at
    ELSE ValueAt(Descend(at.value, Head(segments)), Tail(segments))

\* the keys of the mappings of a value, at every depth
RECURSIVE KeysWithin(_)
KeysWithin(v) ==
    CASE v.k = "dict" ->
            DictKeys(v) \cup UNION {KeysWithin(v.items[i][2]) : i \in 1..Len(v.items)}
      [] v.k = "list" -> UNION {KeysWithin(v.items[i]) : i \in 1..Len(v.items)}
      [] OTHER -> {}
PlainKeysOnly(trace) == \A key \in KeysWithin(trace) : ~HasBracket(key)

\* what the call returns for a well-formed path that crosses no
\* administrative key: the value the path names, None when it names none
ReturnsValueAt ==
    (WellFormed(call.key) /\ ~ThroughAdministrativeKey(call.key)) =>
        outcome.val = (IF ValueAt(Found_at(call.trace), Segments(call.key)).found
                       THEN ValueAt(Found_at(call.trace), Segments(call.key)).value
                       ELSE PyNone)

Strategy(evaluator_key, args) ==
    Let(StrategyTry(evaluator_key, args, <<>>), LAMBDA tried :
        IF tried.ok THEN tried ELSE Ret(StrategyExcept(evaluator_key, tried.exc)))

StrategyArgs(output, data_point, settings_values) ==
    [inputs |-> Empty, output |-> PyStr(output), data_point |-> data_point,
     app_params |-> Empty, settings_values |-> settings_values,
     lm_providers_keys |-> Empty, loop_available |-> TRUE]

\* texts of no, one, two and three tokens, with repeated and reordered ones
TokenTexts == {"", " ", "a", "a b", "b a", "a  b a", "b c", "a b c"}
Thresholds == {PyInt(0), PyFloat(1, 3), PyFloat(1, 2), PyFloat(2, 3), PyInt(1)}
SimilarityArgs ==
    {StrategyArgs(output, D1("answer", PyStr(correct_answer)),
                  WithKey(<< <<"similarity_threshold", threshold>> >>)) :
        output \in TokenTexts, correct_answer \in TokenTexts, threshold \in Thresholds}

ContainsOutputs == {"a b c", "a c", "A B", "c", ""}
ContainsSettings ==
    {D1("substrings", PyStr("a,b")), D1("substrings", PyStr(" a , b ")),
     D1("substrings", PyStr("b")), D1("substrings", PyStr("")),
     D2("substrings", PyStr("A, b"), "case_sensitive", PyBool(FALSE)),
     D2("substrings", PyStr("A,b"), "case_sensitive", PyBool(TRUE))}
ContainsArgs ==
    {StrategyArgs(output, Empty, settings_values) :
        output \in ContainsOutputs, settings_values \in ContainsSettings}

StrategyArgsFor(evaluator_key) ==
    IF evaluator_key = "auto_similarity_match" THEN SimilarityArgs ELSE ContainsArgs

\* the caller calls the registered function
RunStrategy(evaluator_key, args) ==
    /\ pc = "idle"
    /\ call' = [evaluator_key |-> evaluator_key, args |-> args]
    /\ outcome' = Strategy(evaluator_key, args)
    /\ pc' = "ran"
    /\ UNCHANGED <<invoked, requests, responses, raised, strategy_outcome, layer,
                 threads, loops, tracing, result>>

NextStrategy ==
    \E evaluator_key \in {"auto_similarity_match", "auto_contains_any", "auto_contains_all"} :
       \E args \in StrategyArgsFor(evaluator_key) : RunStrategy(evaluator_key, args)

SpecStrategy == Init /\ [][NextStrategy]_vars

Ran(evaluator_key) == pc = "ran" /\ call.evaluator_key = evaluator_key

\* the whitespace tokens of the output and of the reference answer
OutputTokens == ToSet(SplitWs(call.args.output.s))
AnswerTokens == ToSet(SplitWs(DictLookup(call.args.data_point, "answer").s))
Threshold == DictLookup(call.args.settings_values, "similarity_threshold")
\* |intersection| / |union| exceeds the threshold
ExceedsThreshold ==
    Cardinality(OutputTokens \cap AnswerTokens) * DenOf(Threshold)
        > NumOf(Threshold) * Cardinality(OutputTokens \cup AnswerTokens)

Entries == StripAll(Split(DictLookup(call.args.settings_values, "substrings").s, ","))
CaseSensitive == Truthy(DictGet(call.args.settings_values, "case_sensitive", PyBool(TRUE)))
\* the entry occurs in the output, both lower-cased unless case_sensitive
Occurs(entry) ==
    IF CaseSensitive THEN Contains(call.args.output.s, entry.s)
    ELSE Contains(Lower(call.args.output.s), Lower(entry.s))
\* the entries are a and b and the output is the text
EntriesAB(text) ==
    /\ Entries = <<PyStr("a"), PyStr("b")>>
    /\ CaseSensitive
    /\ call.args.output = PyStr(text)

\* C16: auto_contains_all returns true exactly when every trimmed entry of
\* the comma-separated substrings setting occurs in the output, and
\* auto_contains_any exactly when at least one does, both sides lower-cased
\* when case_sensitive is false ; entries a and b give all=true, any=true on
\* "a b c" and all=false, any=true on "a c".
C16_ContainsAllAndAny ==
    /\ Ran("auto_contains_all") =>
          /\ outcome = Ret(ValueResult("bool",
                               PyBool(\A i \in DOMAIN Entries : Occurs(Entries[i]))))
          /\ EntriesAB("a b c") => outcome.val.value = PyBool(TRUE)
          /\ EntriesAB("a c") => outcome.val.value = PyBool(FALSE)
    /\ Ran("auto_contains_any") =>
          /\ outcome = Ret(ValueResult("bool",
                               PyBool(\E i \in DOMAIN Entries : Occurs(Entries[i]))))
          /\ EntriesAB("a b c") => outcome.val.value = PyBool(TRUE)
          /\ EntriesAB("a c") => outcome.val.value = PyBool(TRUE)

\* auto_contains_all found b missing from "a c", the setting written with
\* blanks around its entries
C16_Witness ==
    /\ Ran("auto_contains_all")
    /\ DictLookup(call.args.settings_values, "substrings") = PyStr(" a , b ")
    /\ EntriesAB("a c")
    /\ outcome = Ret(ValueResult("bool", PyBool(FALSE)))

\* the requests issued to one collaborator
RequestsTo(to) == {i \in 1..Len(requests) : requests[i].to = to}
\* the collaborator's call raised, or the webhook answered an error status
Failed(i) ==
    \/ responses[i].raised
    \/ requests[i].to = "webhook" /\ responses[i].val.status \notin 200..299

\* C17: within one evaluate call the webhook, the chat completion, the RAG
\* scorer and the sandbox are each asked at most once and the embeddings API
\* at most twice, once for the output and then once for the reference ; a
\* failed request is the last one issued, and the call then returns an error
\* Result.
C17_NoRetry ==
    /\ \A to \in {"webhook", "chat", "rag_scorer", "sandbox"} :
          /\ Cardinality(RequestsTo(to)) <= 1
          /\ RequestsTo(to) # {} => Len(requests) = 1
    /\ Cardinality(RequestsTo("embedding")) <= 2
    /\ RequestsTo("embedding") # {} =>
          /\ Len(requests) <= 2
          /\ requests[1].input = call.args.output
          /\ Len(requests) = 2 =>
                requests[2].input
                    = get_correct_answer(call.args.data_point, call.args.settings_values).val
    /\ \A i \in 1..Len(responses) :
          Failed(i) =>
             /\ Len(requests) = i
             /\ pc = "returned" => outcome.ok /\ IsErrorResult(outcome.val)

\* the first embedding call failed and the call returned without a second
C17_Witness ==
    /\ Finished("auto_semantic_similarity")
    /\ Len(requests) = 1
    /\ Len(responses) = 1
    /\ responses[1].raised
    /\ IsErrorResult(outcome.val)

\* ------------------------------------------------------------------------
\* Several evaluate calls at once: one per thread of the process.  A thread
\* runs one call at a time ; asyncio.get_event_loop() hands a strategy the
\* loop that is current in its thread, and loop.run_until_complete refuses a
\* loop that is already running.
\* ------------------------------------------------------------------------
NoLoop == "no current loop"
\* the main thread has its loop ; another thread has none unless the
\* application installed one with asyncio.set_event_loop, its own or the
\* main thread's
CurrentLoops(thread) ==
    IF thread = "MainThread" THEN {"main_loop"} ELSE {NoLoop, "thread_loop", "main_loop"}

ConcurrentKeys == {"auto_exact_match", "auto_semantic_similarity", "rag_faithfulness"}

ConcurrentArgs(evaluator_key) ==
    CASE evaluator_key = "auto_exact_match" ->
            {StrategyArgs(output, D1("answer", PyStr("a b")), PyDict(<<Answer_key>>)) :
                output \in {"a b", "b"}}
      [] evaluator_key = "auto_semantic_similarity" ->
            {[StrategyArgs("a b", D1("answer", PyStr("a b")), PyDict(<<Answer_key>>))
                 EXCEPT !.lm_providers_keys = D1("OPENAI_API_KEY", PyStr("sk-1"))]}
      [] evaluator_key = "rag_faithfulness" ->
            {[StrategyArgs("", Empty,
                           D3("question_key", UserKey("q"), "answer_key", UserKey("a.text"),
                              "contexts_key", UserKey("ctx")))
                 EXCEPT !.output = Trace1]}

\* what the collaborators of the call will answer, in order
AnswersFor(evaluator_key) ==
    CASE evaluator_key = "auto_exact_match" -> {<<>>}
      [] evaluator_key = "auto_semantic_similarity" ->
            {<<Answer(<<1, 0>>), Answer(<<1, 0>>)>>, <<Answer(<<1, 0>>), Answer(<<0, 1>>)>>,
             <<Failure("APIConnectionError", "Connection error."), Answer(<<1, 0>>)>>}
      [] evaluator_key = "rag_faithfulness" ->
            {<<Answer(PyFloat(1, 2))>>, <<Failure("Exception", "scorer failed")>>}

\* a thread calls evaluate(evaluator_key, *args) and the strategy is entered
CallIn(thread, evaluator_key, args, loop, answers) ==
    /\ threads[thread].pc = "idle"
    /\ threads' = [threads EXCEPT ![thread] =
                      [pc |-> "in_try",
                       call |-> [evaluator_key |-> evaluator_key,
                                 args |-> [args EXCEPT !.loop_available = loop # NoLoop]],
                       loop |-> loop, answers |-> answers, responses |-> <<>>]]
    /\ UNCHANGED <<pc, call, invoked, requests, responses, raised, strategy_outcome, outcome,
                   layer, loops, tracing, result>>

\* the try body of the thread's call, given the answers received so far
BodyIn(thread) ==
    StrategyTry(threads[thread].call.evaluator_key, threads[thread].call.args,
                threads[thread].responses)

\* the loops once the thread no longer runs one
Released(thread) == [loop \in Loops |-> IF loops[loop] = thread THEN NotRunning ELSE loops[loop]]

\* the Result of the strategy for an outcome of its try body
ResultOf(evaluator_key, tried) ==
    IF tried.ok THEN tried.val ELSE StrategyExcept(evaluator_key, tried.exc)

\* the try body returns or raises: the strategy returns its Result, which
\* evaluate returns unchanged
ReturnIn(thread) ==
    /\ threads[thread].pc = "in_try"
    /\ ~IsAwait(BodyIn(thread))
    /\ threads' = [threads EXCEPT ![thread] =
                      [@ EXCEPT !.pc = "returned"] @@
                      [outcome |-> ResultOf(threads[thread].call.evaluator_key, BodyIn(thread))]]
    /\ loops' = Released(thread)
    /\ UNCHANGED <<pc, call, invoked, requests, responses, raised, strategy_outcome, outcome,
                   layer, tracing, result>>

\* loop.run_until_complete(...) on a loop no thread is running, or the next
\* await of the coroutine this thread is running
RunUntilComplete(thread) ==
    /\ threads[thread].pc = "in_try"
    /\ IsAwait(BodyIn(thread))
    /\ loops[threads[thread].loop] \in {NotRunning, thread}
    /\ loops' = [loops EXCEPT ![threads[thread].loop] = thread]
    /\ threads' = [threads EXCEPT ![thread].pc = "awaiting"]
    /\ UNCHANGED <<pc, call, invoked, requests, responses, raised, strategy_outcome, outcome,
                   layer, tracing, result>>

\* loop.run_until_complete(...) on a loop another thread is running raises
\* RuntimeError, which the strategy's except clause turns into its Result
LoopAlreadyRunning(thread) ==
    /\ threads[thread].pc = "in_try"
    /\ IsAwait(BodyIn(thread))
    /\ loops[threads[thread].loop] \notin {NotRunning, thread}
    /\ threads' = [threads EXCEPT ![thread] =
                      [@ EXCEPT !.pc = "returned"] @@
                      [outcome |-> ResultOf(threads[thread].call.evaluator_key,
                                            Raise("RuntimeError",
                                                  "This event loop is already running"))]]
    /\ UNCHANGED <<pc, call, invoked, requests, responses, raised, strategy_outcome, outcome,
                   layer, loops, tracing, result>>

\* the collaborator answers the awaited call
AnswerIn(thread) ==
    /\ threads[thread].pc = "awaiting"
    /\ threads' = [threads EXCEPT ![thread] =
                      [@ EXCEPT !.pc = "in_try",
                                !.responses = Append(@, threads[thread].answers[Len(@) + 1])]]
    /\ UNCHANGED <<pc, call, invoked, requests, responses, raised, strategy_outcome, outcome,
                   layer, loops, tracing, result>>

NextConcurrent ==
    \E thread \in Threads :
       \/ \E evaluator_key \in ConcurrentKeys : \E args \in ConcurrentArgs(evaluator_key) :
             \E loop \in CurrentLoops(thread) : \E answers \in AnswersFor(evaluator_key) :
                CallIn(thread, evaluator_key, args, loop, answers)
       \/ ReturnIn(thread)
       \/ RunUntilComplete(thread)
       \/ LoopAlreadyRunning(thread)
       \/ AnswerIn(thread)

SpecConcurrent == Init /\ [][NextConcurrent]_vars

\* the Result of the call when no other call is under way: its collaborators
\* give the same answers and its loop is run by nobody else
RECURSIVE RunAlone(_, _, _, _)
RunAlone(evaluator_key, args, answers, n) ==
    IF IsAwait(StrategyTry(evaluator_key, args, SubSeq(answers, 1, n)))
    THEN RunAlone(evaluator_key, args, answers, n + 1)
    ELSE ResultOf(evaluator_key, StrategyTry(evaluator_key, args, SubSeq(answers, 1, n)))

\* C18: under every interleaving of the evaluate calls of several threads,
\* each call returns the Result it returns when it runs alone.
C18_ConcurrentCallsIndependent ==
    \A thread \in Threads :
        threads[thread].pc = "returned" =>
            threads[thread].outcome
                = RunAlone(threads[thread].call.evaluator_key, threads[thread].call.args,
                           threads[thread].answers, 0)

\* ------------------------------------------------------------------------
\* flatten_json on its own: one call on a JSON object
\* ------------------------------------------------------------------------
JsonLeaves == {PyInt(1), PyInt(2), PyStr("v"), PyNone}
\* a member is a leaf, a container of one leaf, a nest of containers, or an
\* empty container
MemberKinds == {"leaf", "dict", "list", "nested", "empty dict", "empty list"}
Member(kind, leaf) ==
    CASE kind = "leaf" -> leaf
      [] kind = "dict" -> D1("b", leaf)
      [] kind = "list" -> PyList(<<leaf>>)
      [] kind = "nested" -> D1("b", PyList(<<leaf, D1("c", leaf)>>))
      [] kind = "empty dict" -> Empty
      [] kind = "empty list" -> PyList(<<>>)
\* the key of the second member of the object, which may hold a dot
SecondKeys == {"c", "a.b", "a.0"}
\* objects of one and of two members
JsonObject(kind, leaf, members, key, second) ==
    IF members = 1 THEN D1("a", Member(kind, leaf)) ELSE D2("a", Member(kind, leaf), key, second)

\* the caller calls flatten_json(json_obj)
Flatten(json_obj) ==
    /\ pc = "idle"
    /\ call' = [json_obj |-> json_obj]
    /\ outcome' = Ret(flatten_json(json_obj))
    /\ pc' = "flattened"
    /\ UNCHANGED <<invoked, requests, responses, raised, strategy_outcome, layer,
                   threads, loops, tracing, result>>

NextFlatten ==
    \E kind \in MemberKinds : \E leaf \in JsonLeaves : \E members \in {1, 2} :
       \E key \in SecondKeys : \E second \in JsonLeaves :
          Flatten(JsonObject(kind, leaf, members, key, second))

SpecFlatten == Init /\ [][NextFlatten]_vars

\* the non-container leaves of a value, each with the keys and indices that
\* lead to it
RECURSIVE LeavesOf(_, _)
LeavesOf(value, steps) ==
    CASE value.k = "dict" ->
            UNION {LeavesOf(value.items[i][2], Append(steps, value.items[i][1])) :
                      i \in 1..Len(value.items)}
      [] value.k = "list" ->
            UNION {LeavesOf(value.items[i], Append(steps, ToString(i - 1))) :
                      i \in 1..Len(value.items)}
      [] OTHER -> {[steps |-> steps, value |-> value]}
\* the steps joined by "."
RECURSIVE DottedPath(_)
DottedPath(steps) ==
    IF Len(steps) = 1 THEN steps[1]
    ELSE DottedPath(SubSeq(steps, 1, Len(steps) - 1)) \o "." \o steps[Len(steps)]

\* C19: for every JSON object, flatten_json holds exactly one entry per
\* non-container leaf, under the leaf's dotted path and with the leaf's
\* value: no two leaves share a path and no leaf is lost or overwritten ;
\* empty containers give no entry.
C19_FlattenKeepsEveryLeaf ==
    pc = "flattened" =>
        /\ Len(outcome.val.items) = Cardinality(LeavesOf(call.json_obj, <<>>))
        /\ \A leaf \in LeavesOf(call.json_obj, <<>>) :
              /\ DictHas(outcome.val, DottedPath(leaf.steps))
              /\ DictLookup(outcome.val, DottedPath(leaf.steps)) = leaf.value

\* ------------------------------------------------------------------------
\* The instrument decorator: one call of the wrapper of a decorated function
\* ------------------------------------------------------------------------
\* what the decorated function does when it is called
FuncNames == {"text", "none", "number", "message dict", "other dict", "ValueError",
              "KeyError", "Exception", "CancelledError"}
Behaviour(name) ==
    CASE name = "text" -> Ret(PyStr("hi"))
      [] name = "none" -> Ret(PyNone)
      [] name = "number" -> Ret(PyInt(3))
      [] name = "message dict" -> Ret(D1("message", PyStr("m")))
      [] name = "other dict" -> Ret(D1("x", PyInt(1)))
      [] name = "ValueError" -> Raise("ValueError", "bad")
      [] name = "KeyError" -> Raise("KeyError", "'k'")
      [] name = "Exception" -> Raise("Exception", "")
      [] name = "CancelledError" -> Raise("CancelledError", "")
ConfigNames == {"none", "prompt"}
Config(name) == IF name = "none" THEN PyNone ELSE D1("temperature", PyInt(1))
KwargsNames == {"none", "prompt"}
Kwargs(name) == IF name = "none" THEN Empty ELSE D1("prompt", PyStr("p"))

\* the caller awaits wrapper(*args, **kwargs) of instrument(config, spankind)(func)
CallWrapper(func, is_coroutine_function, kwargs, config, spankind) ==
    /\ pc = "idle"
    /\ call' = [func |-> func, is_coroutine_function |-> is_coroutine_function,
                kwargs |-> kwargs, config |-> config, spankind |-> spankind]
    /\ pc' = "wrapper"
    /\ UNCHANGED <<invoked, requests, responses, raised, strategy_outcome, outcome, layer,
                   threads, loops, tracing, result>>

\* lines 43-49
StartSpan ==
    /\ pc = "wrapper"
    /\ result' = PyNone
    /\ tracing' = Append(tracing, [method |-> "start_span", span |-> Len(tracing) + 1,
                                   name |-> call.func, input |-> call.kwargs,
                                   spankind |-> call.spankind, config |-> call.config])
    /\ pc' = "try"
    /\ UNCHANGED <<call, invoked, requests, responses, raised, strategy_outcome, outcome,
                   layer, threads, loops>>

\* the span start_span returned to this call
Span == tracing[1].span

\* an except clause that catches nothing
Caught_nothing(exc) == FALSE
\* line 59: except Exception
Caught(exc) == IsInstance(exc, "Exception")

\* {"message": result} if not isinstance(result, dict) else result
end_span_outputs(value) == IF value.k = "dict" THEN value ELSE D1("message", value)

\* lines 52-58: func, awaited or not, returns
FuncReturns ==
    /\ pc = "try"
    /\ Behaviour(call.func).ok
    /\ invoked' = Append(invoked, call.func)
    /\ result' = Behaviour(call.func).val
    /\ tracing' = Append(tracing, [method |-> "update_span_status", span |-> Span,
                                   value |-> "OK"])
    /\ pc' = "finally"
    /\ UNCHANGED <<call, requests, responses, raised, strategy_outcome, outcome, layer,
                   threads, loops>>

\* lines 59-61: func raises an exception the except clause catches
FuncRaises ==
    /\ pc = "try"
    /\ ~Behaviour(call.func).ok
    /\ Caught(Behaviour(call.func).exc)
    /\ invoked' = Append(invoked, call.func)
    /\ result' = PyStr(StrExc(Behaviour(call.func).exc))
    /\ tracing' = Append(tracing, [method |-> "update_span_status", span |-> Span,
                                   value |-> "ERROR"])
    /\ pc' = "finally"
    /\ UNCHANGED <<call, requests, responses, raised, strategy_outcome, outcome, layer,
                   threads, loops>>

\* func raises an exception the except clause does not catch
FuncRaisesUncaught ==
    /\ pc = "try"
    /\ ~Behaviour(call.func).ok
    /\ ~Caught(Behaviour(call.func).exc)
    /\ invoked' = Append(invoked, call.func)
    /\ raised' = Behaviour(call.func).exc
    /\ pc' = "finally"
    /\ UNCHANGED <<call, requests, responses, strategy_outcome, outcome, layer,
                   threads, loops, tracing, result>>

\* lines 62-68
EndSpan ==
    /\ pc = "finally"
    /\ tracing' = Append(tracing, [method |-> "end_span", span |-> Span,
                                   outputs |-> end_span_outputs(result)])
    /\ pc' = "after_finally"
    /\ UNCHANGED <<call, invoked, requests, responses, raised, strategy_outcome, outcome,
                   layer, threads, loops, result>>

\* line 69, or the uncaught exception leaving the wrapper after the finally
WrapperReturns ==
    /\ pc = "after_finally"
    /\ outcome' = IF raised = Nothing THEN Ret(result) ELSE [ok |-> FALSE, exc |-> raised]
    /\ pc' = "done"
    /\ UNCHANGED <<call, invoked, requests, responses, raised, strategy_outcome, layer,
                   threads, loops, tracing, result>>

NextInstrument ==
    \/ \E func \in FuncNames : \E is_coroutine_function \in BOOLEAN :
          \E kwargs \in KwargsNames : \E config \in ConfigNames :
             \E spankind \in {"workflow", "llm"} :
                CallWrapper(func, is_coroutine_function, Kwargs(kwargs), Config(config),
                            spankind)
    \/ StartSpan
    \/ FuncReturns
    \/ FuncRaises
    \/ FuncRaisesUncaught
    \/ EndSpan
    \/ WrapperReturns

SpecInstrument == Init /\ [][NextInstrument]_vars

\* the methods called on the tracing object, in order
Methods == [i \in DOMAIN tracing |-> tracing[i].method]
OneSpan == \A i \in DOMAIN tracing : tracing[i].span = Span
IsPrefix(s, t) == Len(s) <= Len(t) /\ s = SubSeq(t, 1, Len(s))
WrapperDone == pc = "done"

\* C20 as stated: every call of the wrapper makes one start_span, one
\* update_span_status, OK when func returned and ERROR when it raised, and
\* one end_span, in this order and for one span ; no exception of func
\* reaches the caller, who gets the exception's text.
C20_OneStatusPerCall ==
    WrapperDone =>
        /\ Methods = <<"start_span", "update_span_status", "end_span">>
        /\ OneSpan
        /\ tracing[2].value = (IF Behaviour(call.func).ok THEN "OK" ELSE "ERROR")
        /\ outcome.ok
        /\ Behaviour(call.func).ok => outcome.val = Behaviour(call.func).val
        /\ ~Behaviour(call.func).ok => outcome.val = PyStr(Behaviour(call.func).exc.msg)

\* C20, amended: the same for a func that returns or raises an instance of
\* Exception ; when func raises another BaseException (asyncio's
\* CancelledError), the call makes one start_span and one end_span, no
\* update_span_status, and the exception reaches the caller.  At every
\* moment the calls made so far are the beginning of one of the two orders.
C20_SpanLifecycle ==
    /\ \/ IsPrefix(Methods, <<"start_span", "update_span_status", "end_span">>)
       \/ IsPrefix(Methods, <<"start_span", "end_span">>)
    /\ tracing # <<>> => OneSpan
    /\ WrapperDone =>
          IF Behaviour(call.func).ok \/ "Exception" \in Bases(Behaviour(call.func).exc.cls)
          THEN /\ Methods = <<"start_span", "update_span_status", "end_span">>
               /\ tracing[2].value = (IF Behaviour(call.func).ok THEN "OK" ELSE "ERROR")
               /\ outcome.ok
               /\ Behaviour(call.func).ok => outcome.val = Behaviour(call.func).val
               /\ ~Behaviour(call.func).ok =>
                     outcome.val = PyStr(Behaviour(call.func).exc.msg)
          ELSE /\ Methods = <<"start_span", "end_span">>
               /\ outcome = [ok |-> FALSE, exc |-> Behaviour(call.func).exc]

\* func raised ValueError("bad") and the caller received "bad"
C20_Witness ==
    /\ WrapperDone
    /\ call.func = "ValueError"
    /\ Methods = <<"start_span", "update_span_status", "end_span">>
    /\ tracing[2].value = "ERROR"
    /\ outcome = Ret(PyStr("bad"))

====
